---- MODULE Spec2Model ----
(***************************************************************************)
(* Next.js Contextify (sriem/nextjs-collector): the file discovery,        *)
(* filtering, classification, ranking and output-assembly pipeline of      *)
(* src/src/extension.ts, together with the two earlier command             *)
(* implementations kept in src/unnamed/part_000.                           *)
(*                                                                         *)
(* Paths, file names, patterns and file contents are strings; the string   *)
(* functions of the code (startsWith, includes, basename, extname, split,  *)
(* replace) are computed character by character.                           *)
(***************************************************************************)
EXTENDS Integers, Sequences, FiniteSets, TLC

(***************************************************************************)
(* State.                                                                  *)
(***************************************************************************)
VARIABLES
    workspace,          \* vscode.workspace.workspaceFolders is set
    pathSep,            \* path.sep of the host: "/" (POSIX) or "\\" (Windows)
    overrideFile,       \* the override ignore files at the root: "absent",
                        \* "readable" or "unreadable" (exists, read throws)
    denied,             \* paths whose read (file) or listing (directory) throws
    symlinks,           \* symbolic links of the project, each pointing to the root
    disk,               \* "ok", "readonly" (open for writing throws) or
                        \* "full" (the write throws after the file was truncated)
    outputs,            \* files written at the root so far, in creation order
    selectedFiles,      \* FileTreeProvider.selectedFiles
    globalState,        \* context.globalState under getStorageKey()
    fired,              \* payload of the last _onSelectionChanged.fire
    currentStep,        \* StepsTreeProvider.currentStep
    selectedFilesCount, \* StepsTreeProvider.selectedFilesCount
    run,                \* the last generation run and what it produced
    clock,              \* number of runs started: the generation timestamp
    selOps,             \* number of selection operations done
    lastSelection       \* the last selection operation and the set it started from

vars == <<workspace, pathSep, overrideFile, denied, symlinks, disk, outputs, selectedFiles,
          globalState, fired, currentStep, selectedFilesCount, run, clock, selOps,
          lastSelection>>

(***************************************************************************)
(* String helpers (JavaScript String / Node path functions).               *)
(***************************************************************************)
CharAt(s, i) == SubSeq(s, i, i)

Rest(s, i) == SubSeq(s, i, Len(s))

StartsWith(s, p) == Len(p) <= Len(s) /\ SubSeq(s, 1, Len(p)) = p

EndsWith(s, p) == Len(p) <= Len(s) /\ SubSeq(s, Len(s) - Len(p) + 1, Len(s)) = p

Includes(s, sub) ==
    \E i \in 1..(Len(s) - Len(sub) + 1) : SubSeq(s, i, i + Len(sub) - 1) = sub

\* String.prototype.lastIndexOf for a one-character needle, 1-based, 0 when absent
LastIndexOf(s, c) ==
    LET hits == {i \in 1..Len(s) : CharAt(s, i) = c}
    IN  IF hits = {} THEN 0 ELSE CHOOSE i \in hits : \A j \in hits : j <= i

IndexOf(s, c) ==
    LET hits == {i \in 1..Len(s) : CharAt(s, i) = c}
    IN  IF hits = {} THEN 0 ELSE CHOOSE i \in hits : \A j \in hits : i <= j

\* String.prototype.split for a one-character separator
RECURSIVE Split(_, _)
Split(s, sep) ==
    LET i == IndexOf(s, sep)
    IN  IF i = 0 THEN <<s>>
        ELSE <<SubSeq(s, 1, i - 1)>> \o Split(Rest(s, i + 1), sep)

\* Array.prototype.join
RECURSIVE Join(_, _)
Join(parts, sep) ==
    IF parts = <<>> THEN ""
    ELSE IF Len(parts) = 1 THEN parts[1]
    ELSE parts[1] \o sep \o Join(Tail(parts), sep)

\* String.prototype.replace(/c/g, rep) for a one-character pattern
RECURSIVE ReplaceAll(_, _, _)
ReplaceAll(s, c, rep) ==
    IF Len(s) <= 1 THEN (IF s = c THEN rep ELSE s)
    ELSE LET h == Len(s) \div 2
         IN  ReplaceAll(SubSeq(s, 1, h), c, rep) \o ReplaceAll(Rest(s, h + 1), c, rep)

\* path.join(dir, name): a file or a directory of the project is named by its
\* place under the root, level by level, "" being the root itself
PathJoin(dir, name) == IF dir = "" THEN name ELSE dir \o "/" \o name

\* path.relative(rootPath, fullPath): the levels joined by the separator of the host
relative(fullPath) ==
    IF pathSep = "/" THEN fullPath ELSE ReplaceAll(fullPath, "/", pathSep)

\* path.join(rootPath, relativePath): the file or directory a relative path names
Resolve(relativePath) ==
    IF pathSep = "/" THEN relativePath ELSE ReplaceAll(relativePath, pathSep, "/")

\* path.basename: on Windows both separators end a directory name
BaseName(p) ==
    IF pathSep = "/" THEN Rest(p, LastIndexOf(p, "/") + 1)
    ELSE LET slash == LastIndexOf(p, "/")
             back  == LastIndexOf(p, pathSep)
         IN  Rest(p, (IF slash > back THEN slash ELSE back) + 1)

\* path.extname: from the last '.', empty when there is none or when the only
\* one is the first character of the name
ExtName(name) ==
    LET i == LastIndexOf(name, ".")
    IN  IF i <= 1 THEN "" ELSE Rest(name, i)

SeqToSet(q) == {q[i] : i \in 1..Len(q)}

(***************************************************************************)
(* Ignore matcher: the npm package "ignore" (^5.3.1) used through          *)
(* ignore(), ig.add(...) and ig.ignores(relativePath).  Its gitignore      *)
(* semantics: patterns are tried in declaration order and the last one     *)
(* that matches decides; '!' re-includes; a pattern with a '/' before its  *)
(* end is anchored at the root, any other matches at every depth; a        *)
(* trailing '/' matches directories only; '*' stays inside one segment; a  *)
(* leading or inner '**' spans zero or more directories and a trailing     *)
(* '/**' everything inside (not the directory itself); a path under an     *)
(* ignored directory is ignored and cannot be re-included.                 *)
(***************************************************************************)

\* '*' inside one path segment
RECURSIVE GlobMatch(_, _)
GlobMatch(pat, s) ==
    IF pat = "" THEN s = ""
    ELSE IF CharAt(pat, 1) = "*"
         THEN \E k \in 0..Len(s) : GlobMatch(Rest(pat, 2), Rest(s, k + 1))
         ELSE /\ s # ""
              /\ CharAt(pat, 1) = CharAt(s, 1)
              /\ GlobMatch(Rest(pat, 2), Rest(s, 2))

RECURSIVE SegsMatch(_, _)
SegsMatch(pats, names) ==
    IF pats = <<>> THEN names = <<>>
    ELSE IF Head(pats) = "**"
         THEN IF Len(pats) = 1
              THEN Len(names) >= 1
              ELSE \E k \in 0..Len(names) :
                       SegsMatch(Tail(pats), SubSeq(names, k + 1, Len(names)))
         ELSE /\ names # <<>>
              /\ GlobMatch(Head(pats), Head(names))
              /\ SegsMatch(Tail(pats), Tail(names))

\* a line of patterns that ig.add keeps: not blank, not a comment
IsRule(line) == line # "" /\ ~StartsWith(line, "#")

RuleNegative(line) == StartsWith(line, "!")

RuleBody(line) == IF RuleNegative(line) THEN Rest(line, 2) ELSE line

RuleDirOnly(line) == EndsWith(RuleBody(line), "/")

RuleSegments(line) ==
    LET b0   == RuleBody(line)
        b1   == IF EndsWith(b0, "/") THEN SubSeq(b0, 1, Len(b0) - 1) ELSE b0
        b2   == IF StartsWith(b1, "/") THEN Rest(b1, 2) ELSE b1
        segs == Split(b2, "/")
    IN  IF Includes(b1, "/") THEN segs ELSE <<"**">> \o segs

\* does one rule match the path (a directory is asked about as "dir/")
RuleMatches(line, path) ==
    LET isDir == EndsWith(path, "/")
        bare  == IF isDir THEN SubSeq(path, 1, Len(path) - 1) ELSE path
    IN  /\ RuleDirOnly(line) => isDir
        /\ SegsMatch(RuleSegments(line), Split(bare, "/"))

\* the last matching rule decides
RECURSIVE TestOne(_, _, _)
TestOne(rules, path, ignored) ==
    IF rules = <<>> THEN ignored
    ELSE LET r == Head(rules)
         IN  TestOne(Tail(rules), path,
                     IF IsRule(r) /\ RuleMatches(r, path)
                     THEN ~RuleNegative(r)
                     ELSE ignored)

\* ig.ignores(path): an ignored ancestor directory decides, else the path itself
Ignores(rules, path) ==
    LET names == Split(path, "/")
    IN  \/ \E k \in 1..(Len(names) - 1) :
               TestOne(rules, Join(SubSeq(names, 1, k), "/") \o "/", FALSE)
        \/ TestOne(rules, path, FALSE)

\* the default patterns of scanAndProcessFiles and of
\* FileTreeProvider.createIgnoreFilter (the two lists are the same)
defaultIgnore ==
    <<
       "node_modules/**", ".next/**", ".swc/**", "out/**", "build/**", "dist/**",
       ".turbo/**", ".env*", ".git/**", ".vscode/**", ".idea/**", ".cursor/**",
       ".windsurf/**", "package-lock.json", "yarn.lock", "pnpm-lock.yaml", "bun.lockb",
       "**/*.jpg", "**/*.jpeg", "**/*.png", "**/*.gif", "**/*.ico", "**/*.svg",
       "**/*.webp", "**/*.avif", "**/*.woff", "**/*.woff2", "**/*.ttf", "**/*.eot",
       "**/*.otf", "**/*.mp4", "**/*.webm", "**/*.ogg", "**/*.mp3", "**/*.wav",
       "**/*.avi", "**/*.mov", "**/*.pdf", "**/*.zip", "**/*.tar", "**/*.gz", "**/*.rar",
       "**/*.7z", "**/*.log", "**/*.tmp", "**/tmp/**", "**/temp/**", "coverage/**",
       ".nyc_output/**", "**/*.generated.*", "**/generated/**"
    >>

\* the default patterns of the earlier generateCodebaseContext (part_000)
legacyDefaultIgnore ==
    <<
       "node_modules/**", ".next/**", ".swc/**", "out/**", "build/**", "dist/**",
       ".turbo/**", ".env*", ".env.local", ".env.production", ".env.development",
       ".git/**", ".vscode/**", ".idea/**", "**/.DS_Store",
       "package-lock.json", "yarn.lock", "pnpm-lock.yaml", "bun.lockb",
       "**/*.jpg", "**/*.jpeg", "**/*.png", "**/*.gif", "**/*.ico", "**/*.svg",
       "**/*.webp", "**/*.avif", "**/*.woff", "**/*.woff2", "**/*.ttf", "**/*.eot",
       "**/*.otf", "**/*.mp4", "**/*.webm", "**/*.ogg", "**/*.mp3", "**/*.wav",
       "**/*.avi", "**/*.mov", "**/*.pdf", "**/*.zip", "**/*.tar", "**/*.gz", "**/*.rar",
       "**/*.7z", "**/*.exe", "**/*.dll", "**/*.so", "**/*.dylib",
       "**/*.log", "**/*.tmp", "**/tmp/**", "**/temp/**", "coverage/**",
       ".nyc_output/**", "**/*.generated.*", "**/generated/**",
       ".webpack/**", ".parcel-cache/**"
    >>

\* the default patterns of the first command, collectCodebaseContext (part_000)
collectDefaultIgnore == <<"node_modules", ".env", ".next", ".git", "dist", "build">>

(***************************************************************************)
(* File classifier.                                                        *)
(***************************************************************************)
Rule(p, c) == [priority |-> p, category |-> c]

\* a classifier that files what is under app/ below the range of its group
Misfiled(relativePath, content) ==
    IF StartsWith(relativePath, "app/") THEN Rule(58, "B9_App_Other") ELSE Rule(10, "H4_Other")

categorizeFile(relativePath, content) ==
    LET fileName  == BaseName(relativePath)
        extension == ExtName(fileName)
    IN
    IF fileName \in {"next.config.js", "next.config.mjs", "next.config.ts"}
    THEN Rule(100, "A1_NextJS_Config")
    ELSE IF fileName = "package.json"
    THEN Rule(95, "A2_Package_Config")
    ELSE IF fileName \in {"tsconfig.json", "jsconfig.json"}
    THEN Rule(90, "A3_TypeScript_Config")
    ELSE IF fileName \in {"tailwind.config.js", "tailwind.config.ts"}
    THEN Rule(85, "A4_Styling_Config")
    ELSE IF StartsWith(relativePath, "app/")
    THEN IF fileName \in {"layout.tsx", "layout.js"} THEN Rule(80, "B1_App_Layouts")
         ELSE IF fileName \in {"page.tsx", "page.js"} THEN Rule(75, "B2_App_Pages")
         ELSE IF fileName \in {"loading.tsx", "loading.js"} THEN Rule(70, "B3_App_Loading")
         ELSE IF fileName \in {"error.tsx", "error.js"} THEN Rule(70, "B4_App_Error")
         ELSE IF fileName \in {"not-found.tsx", "not-found.js"} THEN Rule(65, "B5_App_NotFound")
         ELSE IF fileName \in {"template.tsx", "template.js"} THEN Rule(65, "B6_App_Templates")
         ELSE IF fileName \in {"global-error.tsx", "global-error.js"}
              THEN Rule(65, "B7_App_GlobalError")
         ELSE IF fileName \in {"route.ts", "route.js"} THEN Rule(72, "B8_App_API_Routes")
         ELSE Rule(60, "B9_App_Other")
    ELSE IF StartsWith(relativePath, "pages/")
    THEN IF fileName \in {"_app.tsx", "_app.js"} THEN Rule(78, "C1_Pages_App")
         ELSE IF fileName \in {"_document.tsx", "_document.js"} THEN Rule(77, "C2_Pages_Document")
         ELSE IF fileName \in {"_error.tsx", "_error.js"} THEN Rule(76, "C3_Pages_Error")
         ELSE IF fileName \in {"404.tsx", "404.js"} THEN Rule(74, "C4_Pages_404")
         ELSE IF fileName \in {"500.tsx", "500.js"} THEN Rule(73, "C5_Pages_500")
         ELSE IF StartsWith(relativePath, "pages/api/") THEN Rule(71, "C6_Pages_API")
         ELSE Rule(68, "C7_Pages_Other")
    ELSE IF StartsWith(relativePath, "components/") \/ StartsWith(relativePath, "src/components/")
    THEN IF Includes(content, "'use client'") \/ Includes(content, "\"use client\"")
         THEN Rule(55, "D1_Client_Components")
         ELSE Rule(52, "D2_Server_Components")
    ELSE IF StartsWith(relativePath, "ui/") \/ StartsWith(relativePath, "src/ui/")
    THEN Rule(50, "D3_UI_Components")
    ELSE IF \/ StartsWith(relativePath, "hooks/") \/ StartsWith(relativePath, "src/hooks/")
            \/ StartsWith(fileName, "use")
    THEN Rule(48, "E1_Hooks")
    ELSE IF \/ StartsWith(relativePath, "lib/") \/ StartsWith(relativePath, "src/lib/")
            \/ StartsWith(relativePath, "utils/") \/ StartsWith(relativePath, "src/utils/")
    THEN Rule(45, "E2_Utils_Lib")
    ELSE IF \/ StartsWith(relativePath, "store/") \/ StartsWith(relativePath, "src/store/")
            \/ Includes(relativePath, "redux") \/ Includes(relativePath, "zustand")
            \/ Includes(relativePath, "context") \/ Includes(relativePath, "provider")
    THEN Rule(42, "F1_State_Management")
    ELSE IF \/ StartsWith(relativePath, "prisma/") \/ Includes(relativePath, "schema")
            \/ Includes(relativePath, "migration") \/ Includes(relativePath, "seed")
    THEN Rule(40, "F2_Database")
    ELSE IF fileName \in {"middleware.ts", "middleware.js"}
    THEN Rule(82, "A5_Middleware")
    ELSE IF extension \in {".css", ".scss", ".sass", ".less"}
    THEN IF \/ Includes(fileName, "global") \/ Includes(fileName, "main")
            \/ StartsWith(relativePath, "styles/")
         THEN Rule(35, "G1_Styles")
         ELSE Rule(30, "G2_Component_Styles")
    ELSE IF extension \in {".ts", ".tsx", ".js", ".jsx"}
    THEN Rule(25, "H1_Other_Code")
    ELSE IF \/ extension \in {".json", ".yaml", ".yml"}
            \/ Includes(fileName, "config") \/ Includes(fileName, ".env")
    THEN Rule(20, "H2_Config_Files")
    ELSE IF extension \in {".md", ".mdx"}
    THEN Rule(15, "H3_Documentation")
    ELSE Rule(10, "H4_Other")

(***************************************************************************)
(* Ranking: files.sort((a, b) => a.priority !== b.priority                 *)
(*              ? b.priority - a.priority                                  *)
(*              : a.category.localeCompare(b.category)).                   *)
(***************************************************************************)

\* collation order of the characters that occur in category codes:
\* punctuation, digits, then letters with the lower case first
Collation == "_0123456789aAbBcCdDeEfFgGhHiIjJkKlLmMnNoOpPqQrRsStTuUvVwWxXyYzZ"

Tertiary(c) == IndexOf(Collation, c)

FirstLetter == IndexOf(Collation, "a")

\* letters compare without case at the first level
Primary(c) ==
    LET t == Tertiary(c)
    IN  IF t < FirstLetter THEN t ELSE FirstLetter + ((t - FirstLetter) \div 2)

\* UTF-16 code unit order of the printable ASCII characters (no backquote)
Ascii ==
    " !\"#$%&'()*+,-./0123456789:;<=>?@ABCDEFGHIJKLMNOPQRSTUVWXYZ[\\]^_abcdefghijklmnopqrstuvwxyz{|}~"

CodeUnit(c) == IndexOf(Ascii, c)

\* the key of a character at one level of comparison
KeyAt(level, c) ==
    CASE level = "primary"  -> Primary(c)
      [] level = "tertiary" -> Tertiary(c)
      [] OTHER              -> CodeUnit(c)

RECURSIVE CompareBy(_, _, _)
CompareBy(level, a, b) ==
    IF a = "" /\ b = "" THEN 0
    ELSE IF a = "" THEN -1
    ELSE IF b = "" THEN 1
    ELSE LET ka == KeyAt(level, CharAt(a, 1))
             kb == KeyAt(level, CharAt(b, 1))
         IN  IF ka < kb THEN -1
             ELSE IF ka > kb THEN 1
             ELSE CompareBy(level, Rest(a, 2), Rest(b, 2))

\* String.prototype.localeCompare: negative, zero or positive
localeCompare(a, b) ==
    LET first == CompareBy("primary", a, b)
    IN  IF first # 0 THEN first ELSE CompareBy("tertiary", a, b)

\* the comparator handed to files.sort
compareFiles(a, b) ==
    IF a.priority # b.priority
    THEN b.priority - a.priority
    ELSE localeCompare(a.category, b.category)

\* Array.prototype.sort: a stable sort by the comparator
RECURSIVE InsertSorted(_, _)
InsertSorted(x, sorted) ==
    IF sorted = <<>> THEN <<x>>
    ELSE IF compareFiles(x, Head(sorted)) < 0
         THEN <<x>> \o sorted
         ELSE <<Head(sorted)>> \o InsertSorted(x, Tail(sorted))

RECURSIVE SortFrom(_, _)
SortFrom(todo, sorted) ==
    IF todo = <<>> THEN sorted
    ELSE SortFrom(Tail(todo), InsertSorted(Head(todo), sorted))

\* a sort that leaves the list in the order of the walk
KeepOrder(files) == files

sortFiles(files) == SortFrom(files, <<>>)

\* bounds of the model
MaxRuns == 2

MaxSelOps == 1

\* the number of symbolic links the system follows in one path (40 on Linux)
MaxLinks == 2

(***************************************************************************)
(* The project on disk.  readdirSync lists a directory in a fixed order:   *)
(* the entries below in the order given, the root followed by the files    *)
(* the commands have written.                                              *)
(***************************************************************************)
rootPath == "/work/shop"

OverrideName == ".nextjscollectorignore"

CollectOverrideName == ".contextcollectorignore"

\* the text of the override ignore files when they exist
OverrideText == "# project rules\n\n*.md\n!debug.log\nlocked"

\* what U+FFFD, the character that decoding puts for an invalid byte, is written as
ReplacementChar == "^"

StaticDirs == {"", "app", "locked", "node_modules", "node_modules/x", "public"}

StaticChildren(dir) ==
    CASE dir = ""               -> <<"README.md", "app", "data.bin", "debug.log",
                                     "locked", "node_modules", "public">>
      [] dir = "app"            -> <<"error.tsx", "loading.tsx">>
      [] dir = "locked"         -> <<"util.ts">>
      [] dir = "node_modules"   -> <<"x">>
      [] dir = "node_modules/x" -> <<"y.js">>
      [] OTHER                  -> <<>>

\* files whose bytes are not valid UTF-8
Binary == {"data.bin"}

StaticText(path) ==
    CASE path = "README.md"           -> "# Shop & <docs>"
      [] path = "app/error.tsx"       -> "'use client'\nexport default E"
      [] path = "app/loading.tsx"     -> "export default () => <p class=\"l\" id='x'>a && b</p>"
      [] path = "data.bin"            -> ReplacementChar \o "PNG" \o ReplacementChar
      [] path = "debug.log"           -> "GET / 200"
      [] path = "locked/util.ts"      -> "export const n = 1"
      [] path = "node_modules/x/y.js" -> "module.exports = 1"
      [] OTHER                        -> ""

OverrideEntries ==
    IF overrideFile = "absent" THEN <<>> ELSE <<CollectOverrideName, OverrideName>>

OutputNames == [i \in 1..Len(outputs) |-> outputs[i].name]

\* fs.readdirSync(dir): entry names in listing order; a symbolic link is an
\* entry named up
Listing(dir) ==
    IF dir = "" THEN OverrideEntries \o StaticChildren("") \o OutputNames
    ELSE StaticChildren(dir) \o (IF PathJoin(dir, "up") \in symlinks THEN <<"up">> ELSE <<>>)

\* Dirent.isDirectory(): a symbolic link is not a directory entry
IsDirectory(path) == path \in StaticDirs

\* what following the symbolic links of a path leads to, and how many were followed
RECURSIVE FollowLinks(_, _)
FollowLinks(path, followed) ==
    IF path \in symlinks THEN [path |-> "", links |-> followed + 1]
    ELSE IF \E l \in symlinks : StartsWith(path, l \o "/")
         THEN FollowLinks(Rest(path, Len(CHOOSE l \in symlinks : StartsWith(path, l \o "/")) + 2),
                          followed + 1)
         ELSE [path |-> path, links |-> followed]

RealPath(path) == FollowLinks(path, 0).path

\* fs.statSync(p).isDirectory(): stat follows symbolic links
StatIsDirectory(path) == IsDirectory(RealPath(path))

\* fs.existsSync(p)
Exists(path) ==
    \/ path \in StaticDirs
    \/ \E d \in StaticDirs : \E i \in 1..Len(Listing(d)) : PathJoin(d, Listing(d)[i]) = path

\* Dirent.isFile() / fs.statSync(p).isFile()
IsFile(path) == Exists(path) /\ ~IsDirectory(path) /\ path \notin symlinks

\* fs.readFileSync(p, 'utf8') of a file that can be opened: the decoded text; a
\* byte that is not valid UTF-8 is decoded to U+FFFD, the call does not throw
ReadText(path) ==
    IF path \in {OverrideName, CollectOverrideName} THEN OverrideText
    ELSE IF \E i \in 1..Len(outputs) : outputs[i].name = path
         THEN (CHOOSE o \in SeqToSet(outputs) : o.name = path).text
         ELSE StaticText(path)

\* does fs.readFileSync / fs.readdirSync throw on this path
Throws(path) == path \in denied

(***************************************************************************)
(* Building the matcher, walking the tree, loading and ranking the files.  *)
(***************************************************************************)
Formats == {"xml", "markdown", "json"}

\* the prompt types showPromptWizard offers
WizardPromptTypes ==
    {"bug-fix", "refactor", "docs", "review", "feature", "performance", "architecture"}

getFileExtension(format) ==
    CASE format = "xml"      -> "xml"
      [] format = "json"     -> "json"
      [] format = "markdown" -> "md"
      [] OTHER               -> "txt"

\* the output path of generateCodebaseContext and handleUIGeneration
OutputNameOf(format) == "nextjs-contextify-" \o format \o "." \o getFileExtension(format)

\* the output path of generateCodebaseContextWithPrompts
PromptOutputNameOf(promptType) == "nextjs-contextify-" \o promptType \o ".txt"

LegacyOutputName == "nextjs-codebase-context.txt"

CollectOutputName == "codebase-context.txt"

\* ig.add(defaultIgnore) followed, when the override file exists and can be
\* read, by ig.add(ignoreFileContent)
enhancedRules ==
    defaultIgnore \o (IF overrideFile = "readable" THEN Split(OverrideText, "\n") ELSE <<>>)

legacyRules ==
    legacyDefaultIgnore
        \o (IF overrideFile = "readable" THEN Split(OverrideText, "\n") ELSE <<>>)

\* collectCodebaseContext: the override file's patterns if it exists, else the defaults
collectRules ==
    IF overrideFile = "absent" THEN collectDefaultIgnore
    ELSE IF overrideFile = "readable" THEN Split(OverrideText, "\n")
    ELSE <<>>

\* every path a walk can meet, and every pattern list a command can build
PathUniverse ==
    UNION {{PathJoin(d, StaticChildren(d)[i]) : i \in 1..Len(StaticChildren(d))} :
              d \in StaticDirs}
    \cup {OverrideName, CollectOverrideName, LegacyOutputName, CollectOutputName, "public/up"}
    \cup {OutputNameOf(f) : f \in Formats}
    \cup {PromptOutputNameOf(t) : t \in WizardPromptTypes}

RuleLists ==
    {defaultIgnore, defaultIgnore \o Split(OverrideText, "\n"),
     legacyDefaultIgnore, legacyDefaultIgnore \o Split(OverrideText, "\n"),
     collectDefaultIgnore, Split(OverrideText, "\n")}

\* the answers of the compiled matchers, computed once
IgnoreTable == [rules \in RuleLists |-> {p \in PathUniverse : Ignores(rules, p)}]

\* ig.ignores(relativePath): on a Windows host the matcher first writes the
\* path with forward slashes; a path that goes through a symbolic link is
\* not in the table
ignores(ig, relativePath) ==
    IF Resolve(relativePath) \in PathUniverse
    THEN Resolve(relativePath) \in IgnoreTable[ig]
    ELSE Ignores(ig, Resolve(relativePath))

\* an estimate that rounds down
EstimateFloor(content) == Len(content) \div 4

\* Math.ceil(content.length / 4)
estimateTokens(content) == (Len(content) + 3) \div 4

\* Buffer.byteLength(content, 'utf8'): U+FFFD takes three bytes, the other
\* characters of the model one
byteLength(content) ==
    Len(content) + 2 * Cardinality({i \in 1..Len(content) : CharAt(content, i) = ReplacementChar})

\* processFile: <<>> for null (the read threw), else the one record
FileInfo(relativePath, content, rule) ==
    [path |-> relativePath, content |-> content,
     priority |-> rule.priority, category |-> rule.category, tokens |-> 0, size |-> 0]

Categorized(relativePath, content) ==
    FileInfo(relativePath, content, categorizeFile(relativePath, content))

\* a processFile whose read never throws
ReadsAnyway(filePath, relativePath) == <<Categorized(relativePath, ReadText(filePath))>>

processFile(filePath, relativePath) ==
    IF Throws(filePath) THEN <<>>
    ELSE <<Categorized(relativePath, ReadText(filePath))>>

ScanStart == [failed |-> FALSE, error |-> "", files |-> <<>>, listed |-> {}]

\* scanDirectory: a listing that throws ends the whole walk
RECURSIVE scanDirectory(_, _, _)
RECURSIVE ScanEntries(_, _, _, _)
scanDirectory(dirPath, ig, acc) ==
    IF acc.failed THEN acc
    ELSE IF Throws(dirPath)
         THEN [acc EXCEPT !.failed = TRUE,
                          !.error = "EACCES: permission denied, scandir '" \o dirPath \o "'"]
         ELSE ScanEntries(dirPath, Listing(dirPath), ig,
                          [acc EXCEPT !.listed = @ \cup {dirPath}])

ScanEntries(dirPath, entries, ig, acc) ==
    IF entries = <<>> \/ acc.failed THEN acc
    ELSE LET fullPath     == PathJoin(dirPath, Head(entries))
             relativePath == relative(fullPath)
             next ==
                 IF ignores(ig, relativePath) THEN acc
                 ELSE IF IsDirectory(fullPath)
                      THEN scanDirectory(fullPath, ig, acc)
                      ELSE IF IsFile(fullPath)
                           THEN [acc EXCEPT !.files = @ \o processFile(fullPath, relativePath)]
                           ELSE acc
         IN  ScanEntries(dirPath, Tail(entries), ig, next)

RECURSIVE SumOf(_, _)
SumOf(files, field) ==
    IF files = <<>> THEN 0 ELSE Head(files)[field] + SumOf(Tail(files), field)

\* totals whose histogram gives every category the number of all the files
StatsFlatHistogram(files) ==
    [totalFiles  |-> Len(files),
     totalTokens |-> SumOf(files, "tokens"),
     totalSize   |-> SumOf(files, "size"),
     categories  |-> [c \in {files[i].category : i \in 1..Len(files)} |-> Len(files)]]

computeStats(files) ==
    [totalFiles  |-> Len(files),
     totalTokens |-> SumOf(files, "tokens"),
     totalSize   |-> SumOf(files, "size"),
     categories  |-> [c \in {files[i].category : i \in 1..Len(files)} |->
                         Cardinality({i \in 1..Len(files) : files[i].category = c})]]

withTokens(files) ==
    [i \in 1..Len(files) |->
        [files[i] EXCEPT !.tokens = estimateTokens(files[i].content),
                         !.size = byteLength(files[i].content)]]

\* scanAndProcessFiles(rootPath)
\* what a walk hands to the command: the failure, or the files and their totals
Scanned(files, listed) ==
    [failed |-> FALSE, error |-> "", files |-> files, stats |-> computeStats(files),
     listed |-> listed]

ScanFailed(walk) ==
    [failed |-> TRUE, error |-> walk.error, files |-> <<>>, stats |-> computeStats(<<>>),
     listed |-> walk.listed]

ScanResult(walk) ==
    IF walk.failed THEN ScanFailed(walk)
    ELSE Scanned(sortFiles(withTokens(walk.files)), walk.listed)

scanAndProcessFiles == ScanResult(scanDirectory("", enhancedRules, ScanStart))

(***************************************************************************)
(* Output formatter.  A document is kept by its parts: the sections put    *)
(* before the formatted context, the formatted context (metadata, project  *)
(* tree, file entries in order, prompt-suggestion block) and the sections  *)
(* put after it.  Emoji of the fixed texts are left out.                   *)
(***************************************************************************)

\* an escape that handles < before &, so the & of &lt; is escaped again
EscapeLtFirst(content) ==
    ReplaceAll(ReplaceAll(ReplaceAll(ReplaceAll(ReplaceAll(content,
        "<", "&lt;"), "&", "&amp;"), ">", "&gt;"), "\"", "&quot;"), "'", "&apos;")

\* an escapeXML that replaces the ampersand last
EscapeAmpLast(content) ==
    ReplaceAll(ReplaceAll(ReplaceAll(ReplaceAll(ReplaceAll(content,
        "<", "&lt;"), ">", "&gt;"), "\"", "&quot;"), "'", "&apos;"), "&", "&amp;")

escapeXML(content) ==
    ReplaceAll(ReplaceAll(ReplaceAll(ReplaceAll(ReplaceAll(content,
        "&", "&amp;"), "<", "&lt;"), ">", "&gt;"), "\"", "&quot;"), "'", "&apos;")

\* a tree whose entries are lists: a segment is added each time it is met
TreeAddAgain(tree, parent, part) ==
    IF \E i \in 1..Len(tree) : tree[i].dir = parent
    THEN [i \in 1..Len(tree) |->
             IF tree[i].dir = parent
             THEN [tree[i] EXCEPT !.items = Append(@, part)]
             ELSE tree[i]]
    ELSE Append(tree, [dir |-> parent, items |-> <<part>>])

\* the tree Map of generateProjectTree as <<parentPath, items>> pairs in insertion order
TreeAdd(tree, parent, part) ==
    IF \E i \in 1..Len(tree) : tree[i].dir = parent
    THEN [i \in 1..Len(tree) |->
             IF tree[i].dir = parent /\ part \notin SeqToSet(tree[i].items)
             THEN [tree[i] EXCEPT !.items = Append(@, part)]
             ELSE tree[i]]
    ELSE Append(tree, [dir |-> parent, items |-> <<part>>])

RECURSIVE TreeAddParts(_, _, _)
TreeAddParts(tree, parts, index) ==
    IF index > Len(parts) THEN tree
    ELSE TreeAddParts(TreeAdd(tree, Join(SubSeq(parts, 1, index - 1), "/"), parts[index]),
                      parts, index + 1)

RECURSIVE TreeOf(_, _)
TreeOf(files, tree) ==
    IF files = <<>> THEN tree
    ELSE TreeOf(Tail(files), TreeAddParts(tree, Split(Head(files).path, "/"), 1))

\* Array.prototype.sort() without comparator on the [dir, items] entries: by the
\* string of the entry, which starts with dir followed by ','
RECURSIVE InsertEntry(_, _)
InsertEntry(e, sorted) ==
    IF sorted = <<>> THEN <<e>>
    ELSE IF CompareBy("codeunit", e.dir \o ",", Head(sorted).dir \o ",") < 0
         THEN <<e>> \o sorted
         ELSE <<Head(sorted)>> \o InsertEntry(e, Tail(sorted))

RECURSIVE SortEntries(_, _)
SortEntries(todo, sorted) ==
    IF todo = <<>> THEN sorted
    ELSE SortEntries(Tail(todo), InsertEntry(Head(todo), sorted))

RECURSIVE Spaces(_)
Spaces(n) == IF n = 0 THEN "" ELSE "  " \o Spaces(n - 1)

RECURSIVE Flatten(_)
Flatten(seqs) == IF seqs = <<>> THEN <<>> ELSE Head(seqs) \o Flatten(Tail(seqs))

\* generateProjectTree: the lines of the tree text
\* dirPath.split('/').filter(Boolean).length
DepthOf(parts) == Cardinality({i \in 1..Len(parts) : parts[i] # ""})

TreeLines(entries) ==
    Flatten([e \in 1..Len(entries) |->
                [i \in 1..Len(entries[e].items) |->
                    Spaces(DepthOf(Split(entries[e].dir, "/"))) \o entries[e].items[i]]])

generateProjectTree(files) == TreeLines(SortEntries(TreeOf(files, <<>>), <<>>))

getTokenLimits(llm) ==
    CASE llm = "claude" -> [limit |-> "200k tokens", maxTokens |-> 150000]
      [] llm = "gpt"    -> [limit |-> "128k tokens", maxTokens |-> 100000]
      [] llm = "gemini" -> [limit |-> "1M tokens", maxTokens |-> 800000]
      [] OTHER          -> [limit |-> "varies", maxTokens |-> 100000]

\* a block that warns from the threshold on
SuggestionsWarnAtLimit(stats, targetLLM) ==
    LET tokenInfo == getTokenLimits(targetLLM)
    IN  [heading     |-> "# Ready-to-Use LLM Prompts",
         totalFiles  |-> stats.totalFiles,
         totalTokens |-> stats.totalTokens,
         targetLLM   |-> targetLLM,
         limit       |-> tokenInfo.limit,
         warning     |-> stats.totalTokens >= tokenInfo.maxTokens]

\* generatePromptSuggestions: the figures the fixed block is filled with
generatePromptSuggestions(stats, targetLLM) ==
    LET tokenInfo == getTokenLimits(targetLLM)
    IN  [heading     |-> "# Ready-to-Use LLM Prompts",
         totalFiles  |-> stats.totalFiles,
         totalTokens |-> stats.totalTokens,
         targetLLM   |-> targetLLM,
         limit       |-> tokenInfo.limit,
         warning     |-> stats.totalTokens > tokenInfo.maxTokens]

\* the fence tag of buildMarkdownOutput
FenceTag(path) ==
    LET ext == ExtName(BaseName(path)) IN IF Len(ext) <= 1 THEN "text" ELSE Rest(ext, 2)

\* the entries of a document: an XML body is escaped, a Markdown entry
\* carries the tag of its fence
FileEntries(files, format) ==
    [i \in 1..Len(files) |->
        [path |-> files[i].path, category |-> files[i].category,
         priority |-> files[i].priority, tokens |-> files[i].tokens,
         body |-> IF format = "xml" THEN escapeXML(files[i].content) ELSE files[i].content,
         lang |-> IF format = "markdown" THEN FenceTag(files[i].path) ELSE ""]]

PromptBlock(stats, options) ==
    IF options.includePrompts
    THEN <<generatePromptSuggestions(stats, options.targetLLM)>>
    ELSE <<>>

buildXMLOutput(files, stats, timestamp, options) ==
    [format |-> "xml", generated |-> timestamp, rootPath |-> rootPath, stats |-> stats,
     tree |-> generateProjectTree(files),
     files |-> FileEntries(files, "xml"),
     prompts |-> PromptBlock(stats, options)]

buildMarkdownOutput(files, stats, timestamp, options) ==
    [format |-> "markdown", generated |-> timestamp, rootPath |-> rootPath, stats |-> stats,
     tree |-> generateProjectTree(files),
     files |-> FileEntries(files, "markdown"),
     prompts |-> PromptBlock(stats, options)]

\* the JSON branch: JSON.stringify of {metadata, files}, nothing appended
buildJSONOutput(files, stats, timestamp) ==
    [format |-> "json", generated |-> timestamp, rootPath |-> rootPath, stats |-> stats,
     tree |-> <<>>,
     files |-> FileEntries(files, "json"),
     prompts |-> <<>>]

buildEnhancedOutput(files, stats, timestamp, options) ==
    IF options.format = "json" THEN buildJSONOutput(files, stats, timestamp)
    ELSE IF options.format = "xml" THEN buildXMLOutput(files, stats, timestamp, options)
    ELSE buildMarkdownOutput(files, stats, timestamp, options)

Section(heading, body) == [heading |-> heading, body |-> body]

Document(pre, base, post) == [pre |-> pre, base |-> base, post |-> post]

\* EXTENDED_PROMPT_LIBRARY: key -> title (the prompt texts are fixed)
ExtendedPromptKeys ==
    {"bug-fix", "feature-development", "refactoring", "code-review",
     "performance-optimization", "architecture-analysis", "documentation",
     "onboarding", "security-audit", "testing-strategy", "migration-planning"}

ExtendedPromptTitle(key) ==
    CASE key = "bug-fix"                  -> "Bug Fix Analysis"
      [] key = "feature-development"      -> "Feature Development"
      [] key = "refactoring"              -> "Refactoring Help"
      [] key = "code-review"              -> "Code Review"
      [] key = "performance-optimization" -> "Performance Optimization"
      [] key = "architecture-analysis"    -> "Architecture Analysis"
      [] key = "documentation"            -> "Documentation Generation"
      [] key = "onboarding"               -> "Developer Onboarding"
      [] key = "security-audit"           -> "Security Audit"
      [] key = "testing-strategy"         -> "Testing Strategy"
      [] key = "migration-planning"       -> "Migration Planning"

RuleLines(rules) == Join([i \in 1..Len(rules) |-> "- " \o rules[i]], "\n")

\* a builder that keeps the instructions and the rules only with a known prompt
WithKnownPromptOnly(output, options) ==
    IF options.selectedPrompt # "" /\ options.selectedPrompt \in ExtendedPromptKeys
    THEN Document(
             <<Section("# " \o ExtendedPromptTitle(options.selectedPrompt),
                       "prompt:" \o options.selectedPrompt),
               Section("## Additional Instructions", options.userPrompt),
               Section("# Codebase Context", "")>>,
             output, <<>>)
    ELSE Document(<<>>, output, <<>>)

\* the text put around the formatted context
WithUIPrompt(output, options) ==
    LET hasUser  == options.userPrompt # ""
        hasRules == Len(options.rules) > 0
    IN  IF options.selectedPrompt # "" /\ options.selectedPrompt \in ExtendedPromptKeys
        THEN Document(
                 <<Section("# " \o ExtendedPromptTitle(options.selectedPrompt),
                           "prompt:" \o options.selectedPrompt)>>
                 \o (IF hasUser
                     THEN <<Section("## Additional Instructions", options.userPrompt)>>
                     ELSE <<>>)
                 \o (IF hasRules
                     THEN <<Section("## Custom Rules", RuleLines(options.rules))>>
                     ELSE <<>>)
                 \o <<Section("# Codebase Context", "")>>,
                 output, <<>>)
        ELSE IF hasUser \/ hasRules
        THEN Document(
                 <<Section("# Custom Analysis Request", "")>>
                 \o (IF hasUser THEN <<Section("## Instructions", options.userPrompt)>>
                     ELSE <<>>)
                 \o (IF hasRules THEN <<Section("## Rules", RuleLines(options.rules))>>
                     ELSE <<>>)
                 \o <<Section("# Codebase Context", "")>>,
                 output, <<>>)
        ELSE Document(<<>>, output, <<>>)

buildEnhancedOutputWithUI(files, stats, timestamp, options) ==
    WithUIPrompt(buildEnhancedOutput(files, stats, timestamp, options), options)

\* the templates of buildPromptOutput: heading, the context, the task text
PromptTemplate(key) ==
    CASE key = "bug-fix"      -> <<"# Bug Fix Analysis Prompt", "## Your Task">>
      [] key = "refactor"     -> <<"# Refactoring Assistant Prompt", "## Refactoring Request">>
      [] key = "docs"         -> <<"# Documentation Generation Prompt", "## Documentation Request">>
      [] key = "review"       -> <<"# Code Review Prompt", "## Code Review Request">>
      [] key = "feature"      -> <<"# Feature Development Prompt", "## Feature Development Request">>
      [] key = "performance"  -> <<"# Performance Optimization Prompt", "## Performance Analysis Request">>
      [] key = "architecture" -> <<"# Architecture Deep Dive Prompt", "## Architecture Analysis Request">>

buildPromptOutput(context, promptType) ==
    LET key == IF promptType \in WizardPromptTypes THEN promptType ELSE "review"
    IN  Document(<<Section(PromptTemplate(key)[1], "")>>, context,
                 <<Section(PromptTemplate(key)[2], "task:" \o key)>>)

(***************************************************************************)
(* The text of a document as it is written to disk and read back by a      *)
(* later walk.  The long fixed paragraphs of the templates and the two     *)
(* toFixed(1) figures (size in KB, share of the token budget) are left out *)
(* and a code fence is written ~~~.                                        *)
(***************************************************************************)
Timestamp(n) == "2025-06-01T10:00:0" \o ToString(n) \o ".000Z"

JoinLines(lines) == Join(lines, "\n")

\* JSON.stringify of a string
JsonString(str) ==
    "\"" \o ReplaceAll(ReplaceAll(ReplaceAll(str, "\\", "\\\\"), "\"", "\\\""), "\n", "\\n")
         \o "\""

\* Number.prototype.toLocaleString() in the en-US locale
RECURSIVE toLocaleString(_)
toLocaleString(n) ==
    IF n < 1000 THEN ToString(n)
    ELSE LET r == n % 1000
         IN  toLocaleString(n \div 1000) \o ","
             \o (IF r < 10 THEN "00" ELSE IF r < 100 THEN "0" ELSE "") \o ToString(r)

PromptBlockText(prompts) ==
    IF prompts = <<>> THEN ""
    ELSE "\n\n\n\n" \o prompts[1].heading \o "\n\n## Token Usage\n- **Current context:** ~"
         \o toLocaleString(prompts[1].totalTokens) \o " tokens\n- **" \o prompts[1].targetLLM
         \o " limit:** " \o prompts[1].limit \o "\n\n"
         \o (IF prompts[1].warning
             THEN "**Warning:** Context might be too large. Consider filtering specific directories."
             ELSE "**Good:** Context size is optimal for LLM processing.")
         \o "\n"

XmlFileText(f) ==
    "    <file path=\"" \o f.path \o "\" category=\"" \o f.category \o "\" priority=\""
    \o ToString(f.priority) \o "\" tokens=\"" \o ToString(f.tokens) \o "\">\n"
    \o f.body \o "\n    </file>"

MarkdownFileText(f) ==
    "### " \o f.path \o "\n**Category:** " \o f.category \o " | **Priority:** "
    \o ToString(f.priority) \o " | **Tokens:** ~" \o ToString(f.tokens)
    \o "\n\n~~~" \o f.lang \o "\n" \o f.body \o "\n~~~\n\n---\n"

JsonFileText(f) ==
    "    {\n      \"path\": " \o JsonString(f.path) \o ",\n      \"category\": "
    \o JsonString(f.category) \o ",\n      \"priority\": " \o ToString(f.priority)
    \o ",\n      \"tokens\": " \o ToString(f.tokens) \o ",\n      \"content\": "
    \o JsonString(f.body) \o "\n    }"

PlainFileText(f) == "\n\n// File: " \o f.path \o "\n" \o f.body

BaseText(base) ==
    LET n == Len(base.files)
    IN  CASE base.format = "xml" ->
              "<?xml version=\"1.0\" encoding=\"UTF-8\"?>\n<codebase>\n  <metadata>\n    <generated>"
              \o base.generated \o "</generated>\n    <rootPath>" \o base.rootPath
              \o "</rootPath>\n    <stats>\n      <totalFiles>" \o ToString(base.stats.totalFiles)
              \o "</totalFiles>\n      <totalTokens>" \o ToString(base.stats.totalTokens)
              \o "</totalTokens>\n      <totalSize>" \o ToString(base.stats.totalSize)
              \o "</totalSize>\n    </stats>\n  </metadata>\n\n  <projectTree>\n"
              \o JoinLines(base.tree) \o "\n  </projectTree>\n\n  <files>\n"
              \o Join([i \in 1..n |-> XmlFileText(base.files[i])], "\n\n")
              \o "\n  </files>\n</codebase>" \o PromptBlockText(base.prompts)
          [] base.format = "markdown" ->
              "# Next.js Contextify Output\n\n**Generated:** " \o base.generated
              \o "  \n**Root Path:** " \o base.rootPath \o "  \n**Files:** "
              \o ToString(base.stats.totalFiles) \o "  \n**Estimated Tokens:** ~"
              \o toLocaleString(base.stats.totalTokens) \o "\n\n## Project Structure\n\n~~~\n"
              \o JoinLines(base.tree) \o "\n~~~\n\n## File Contents\n\n"
              \o Join([i \in 1..n |-> MarkdownFileText(base.files[i])], "\n")
              \o PromptBlockText(base.prompts)
          [] base.format = "json" ->
              "{\n  \"metadata\": {\n    \"generated\": " \o JsonString(base.generated)
              \o ",\n    \"rootPath\": " \o JsonString(base.rootPath)
              \o ",\n    \"stats\": {\n      \"totalFiles\": " \o ToString(base.stats.totalFiles)
              \o ",\n      \"totalTokens\": " \o ToString(base.stats.totalTokens)
              \o "\n    },\n    \"format\": \"json\"\n  },\n  \"files\": [\n"
              \o Join([i \in 1..n |-> JsonFileText(base.files[i])], ",\n")
              \o "\n  ]\n}"
          [] base.format = "legacy" ->
              "\n# Next.js Codebase Context\n\nGenerated on: " \o base.generated
              \o "\nRoot path: " \o base.rootPath \o "\nTotal files: " \o ToString(n)
              \o "\n\n---\n\n"
              \o Join([i \in 1..n |->
                         "\nFILE: " \o base.files[i].path \o "\nCATEGORY: "
                         \o base.files[i].category \o "\nPRIORITY: "
                         \o ToString(base.files[i].priority) \o "\n\n"
                         \o base.files[i].body \o "\n"], "\n")
          [] OTHER ->
              Join([i \in 1..n |-> PlainFileText(base.files[i])], "")

\* a section put before the context; a rule line comes before the heading of the context
SectionText(sec) ==
    (IF sec.heading = "# Codebase Context" THEN "---\n\n" ELSE "")
    \o sec.heading \o "\n\n" \o (IF sec.body = "" THEN "" ELSE sec.body \o "\n\n")

DocumentText(doc) ==
    Join([i \in 1..Len(doc.pre) |-> SectionText(doc.pre[i])], "")
    \o BaseText(doc.base)
    \o Join([i \in 1..Len(doc.post) |-> "\n\n---\n\n" \o SectionText(doc.post[i])], "")

(***************************************************************************)
(* FileTreeProvider: the selection set behind the tree view.               *)
(***************************************************************************)
\* a filter of the tree view that adds the override patterns whether or not
\* the override file exists
FilterWithOverrideAlways == defaultIgnore \o Split(OverrideText, "\n")

createIgnoreFilter ==
    defaultIgnore \o (IF overrideFile = "readable" THEN Split(OverrideText, "\n") ELSE <<>>)

\* scanDirectoryForFiles / scanDirectoryForAllItems: a listing that throws is
\* caught and leaves the list as it is; withDirs tells the two apart
RECURSIVE scanDirectoryForItems(_, _, _)
RECURSIVE ScanItemEntries(_, _, _, _)
scanDirectoryForItems(dirPath, withDirs, items) ==
    IF Throws(dirPath) THEN items
    ELSE ScanItemEntries(dirPath, Listing(dirPath), withDirs, items)

ScanItemEntries(dirPath, entries, withDirs, items) ==
    IF entries = <<>> THEN items
    ELSE LET fullPath     == PathJoin(dirPath, Head(entries))
             relativePath == relative(fullPath)
             next ==
                 IF ignores(createIgnoreFilter, relativePath) THEN items
                 ELSE IF IsDirectory(fullPath)
                      THEN scanDirectoryForItems(fullPath, withDirs,
                               IF withDirs THEN items \cup {relativePath} ELSE items)
                      ELSE IF withDirs \/ IsFile(fullPath)
                           THEN items \cup {relativePath}
                           ELSE items
         IN  ScanItemEntries(dirPath, Tail(entries), withDirs, next)

getAllFiles == scanDirectoryForItems("", FALSE, {})

getAllItemsInDirectory(dirPath) == scanDirectoryForItems(dirPath, TRUE, {})

\* getSelectedFiles: the selected paths that exist and are files
getSelectedFilesOf(selection) ==
    {p \in selection : Exists(Resolve(p)) /\ IsFile(Resolve(p))}

getSelectedFiles == getSelectedFilesOf(selectedFiles)

\* the items the tree view shows (getFilesInDirectory, directory by directory),
\* each named by its resourceUri
TreeItems == {Resolve(p) : p \in getAllItemsInDirectory("")}

\* the items the model clicks on
ClickItems == TreeItems \cap {"README.md", "app", "public"}

\* the checkboxState getFilesInDirectory gives an item: checked when it is
\* selected or, for a directory, when a selected path starts with its path and '/'
checkboxState(selection, item) ==
    \/ relative(item) \in selection
    \/ /\ IsDirectory(item)
       /\ \E selectedPath \in selection : StartsWith(selectedPath, relative(item) \o "/")

SelectionOp(op, item, checked) ==
    [op |-> op, item |-> item, checked |-> checked, before |-> selectedFiles]

NoSelectionOp == [op |-> "none", item |-> "", checked |-> FALSE, before |-> {}]

\* a selection change that is notified but not stored
PublishedUnsaved(selection) ==
    /\ selectedFiles' = selection
    /\ globalState' = globalState
    /\ fired' = [any |-> TRUE, files |-> selection]
    /\ selectedFilesCount' = Cardinality(getSelectedFilesOf(selection))
    /\ currentStep' = IF getSelectedFilesOf(selection) # {} THEN 2 ELSE 1
    /\ selOps' = selOps + 1
    /\ UNCHANGED <<workspace, pathSep, overrideFile, denied, symlinks, disk, outputs, run, clock>>

\* saveSelection, notifySelectionChanged and the onSelectionChanged listener
\* of activate, for the selection the operation leaves
Published(selection) ==
    /\ selectedFiles' = selection
    /\ globalState' = selection
    /\ fired' = [any |-> TRUE, files |-> selection]
    /\ selectedFilesCount' = Cardinality(getSelectedFilesOf(selection))
    /\ currentStep' = IF getSelectedFilesOf(selection) # {} THEN 2 ELSE 1
    /\ selOps' = selOps + 1
    /\ UNCHANGED <<workspace, pathSep, overrideFile, denied, symlinks, disk, outputs, run, clock>>

selectAll ==
    /\ workspace
    /\ selOps < MaxSelOps
    /\ lastSelection' = SelectionOp("selectAll", "", TRUE)
    /\ Published(selectedFiles \cup getAllFiles)

deselectAll ==
    /\ workspace
    /\ selOps < MaxSelOps
    /\ lastSelection' = SelectionOp("deselectAll", "", FALSE)
    /\ Published({})

selectDirectoryAndContents(selection, relativePath, fullPath) ==
    (selection \cup {relativePath}) \cup getAllItemsInDirectory(fullPath)

deselectDirectoryAndContents(selection, relativePath, fullPath) ==
    (selection \ {relativePath}) \ getAllItemsInDirectory(fullPath)

toggleDirectorySelection(selection, relativePath, fullPath) ==
    IF relativePath \in selection
    THEN deselectDirectoryAndContents(selection, relativePath, fullPath)
    ELSE selectDirectoryAndContents(selection, relativePath, fullPath)

toggleSelection(item) ==
    /\ workspace
    /\ selOps < MaxSelOps
    /\ item \in ClickItems
    /\ lastSelection' = SelectionOp("toggle", item, relative(item) \notin selectedFiles)
    /\ Published(IF IsDirectory(item)
                 THEN toggleDirectorySelection(selectedFiles, relative(item), item)
                 ELSE IF relative(item) \in selectedFiles
                      THEN selectedFiles \ {relative(item)}
                      ELSE selectedFiles \cup {relative(item)})

\* treeView.onDidChangeCheckboxState for one item: the user flips the box the
\* tree shows for it
onDidChangeCheckboxState(item, checked) ==
    /\ workspace
    /\ selOps < MaxSelOps
    /\ item \in ClickItems
    /\ checked # checkboxState(selectedFiles, item)
    /\ lastSelection' = SelectionOp("checkbox", item, checked)
    /\ Published(IF checked
                 THEN IF StatIsDirectory(item)
                      THEN selectDirectoryAndContents(selectedFiles, relative(item), item)
                      ELSE selectedFiles \cup {relative(item)}
                 ELSE IF StatIsDirectory(item)
                      THEN deselectDirectoryAndContents(selectedFiles, relative(item), item)
                      ELSE selectedFiles \ {relative(item)})

(***************************************************************************)
(* A generation run: what the command did, kept for the properties.        *)
(***************************************************************************)
Options(format, includePrompts, targetLLM, selectedPrompt, userPrompt, rules, promptType) ==
    [format |-> format, includePrompts |-> includePrompts, targetLLM |-> targetLLM,
     selectedPrompt |-> selectedPrompt, userPrompt |-> userPrompt, rules |-> rules,
     promptType |-> promptType]

\* showContextWizard: the answers the model gives to the three quick picks
\* (the first one is also what generateQuickContext passes)
WizardOptions ==
    {Options("xml", TRUE, "claude", "", "", <<>>, ""),
     Options("markdown", FALSE, "gpt", "", "", <<>>, ""),
     Options("json", TRUE, "gemini", "", "", <<>>, "")}

\* the 'generate' messages the webview posts
UIOptions ==
    {Options("json", FALSE, "claude", "bug-fix", "Why does checkout fail?", <<>>, ""),
     Options("xml", TRUE, "claude", "", "", <<"No any", "Keep it short">>, ""),
     Options("markdown", FALSE, "custom", "my-own", "Explain the layout", <<>>, "")}

\* the prompt types the model picks in showPromptWizard
PromptTypes == {"bug-fix"}

PromptOptions(promptType) == Options("xml", TRUE, "claude", "", "", <<>>, promptType)

NoOptions == Options("", FALSE, "", "", "", <<>>, "")

NoBase ==
    [format |-> "none", generated |-> "", rootPath |-> "", stats |-> computeStats(<<>>),
     tree |-> <<>>, files |-> <<>>, prompts |-> <<>>]

NoDoc == Document(<<>>, NoBase, <<>>)

Message(level, text) == [level |-> level, text |-> text]

NoMessage == Message("none", "")

NoRun ==
    [kind |-> "none", options |-> NoOptions, rules |-> <<>>, selected |-> {},
     selection |-> {}, outcome |-> "none", stage |-> "", error |-> "",
     message |-> NoMessage, walked |-> <<>>, files |-> <<>>,
     stats |-> computeStats(<<>>), doc |-> NoDoc, outputName |-> "", listed |-> {},
     before |-> <<>>]

\* the command returns at `if (!workspaceFolders)`
Refused(kind, options) ==
    [NoRun EXCEPT !.kind = kind, !.options = options, !.outcome = "refused",
                  !.stage = "workspace", !.selected = selectedFiles,
                  !.message = Message("error", "No workspace folder open"),
                  !.before = outputs]

\* fs.writeFileSync(outputPath, text): the message of the error it throws
WriteError(name) ==
    CASE disk = "readonly" ->
             "EROFS: read-only file system, open '" \o PathJoin(rootPath, name) \o "'"
      [] disk = "full"     -> "ENOSPC: no space left on device, write"
      [] OTHER             -> ""

Put(files, name, text) ==
    IF \E i \in 1..Len(files) : files[i].name = name
    THEN [i \in 1..Len(files) |->
             IF files[i].name = name THEN [name |-> name, text |-> text] ELSE files[i]]
    ELSE Append(files, [name |-> name, text |-> text])

\* fs.writeFileSync opens the file with O_TRUNC, then writes: on a read-only
\* disk nothing changes, on a full disk the file is left empty
writeFileSync(name, text) ==
    CASE disk = "ok"       -> Put(outputs, name, text)
      [] disk = "readonly" -> outputs
      [] disk = "full"     -> Put(outputs, name, "")

\* a command that writes whatever the walk did
WrittenAnyway(scan, name, text) == writeFileSync(name, text)

\* the write comes after the walk and the build: a walk that threw has left the
\* command before it
Written(scan, name, text) == IF scan.failed THEN outputs ELSE writeFileSync(name, text)

\* the catch block of generateCodebaseContext, handleUIGeneration and the
\* legacy generate command; caught is FALSE for a command without one
ErrorMessage(caught, cause) ==
    IF caught THEN Message("error", "Error generating context: " \o cause) ELSE NoMessage

\* the part the commands share: scan, build, write, report.  scan is the
\* result of the walk, files what the builder is given, doc the document
\* built from them, ok the information message shown on success
Generation(kind, options, rules, scan, files, doc, name, caught, ok) ==
    /\ run' =
           [kind       |-> kind,
            options    |-> options,
            rules      |-> rules,
            selected   |-> selectedFiles,
            selection  |-> getSelectedFiles,
            outcome    |-> IF scan.failed \/ disk # "ok" THEN "aborted" ELSE "completed",
            stage      |-> IF scan.failed THEN "scan"
                           ELSE IF disk # "ok" THEN "write" ELSE "",
            error      |-> IF scan.failed THEN scan.error
                           ELSE IF disk # "ok" THEN WriteError(name) ELSE "",
            message    |-> IF scan.failed THEN ErrorMessage(caught, scan.error)
                           ELSE IF disk # "ok" THEN ErrorMessage(caught, WriteError(name))
                           ELSE Message("info", ok),
            walked     |-> scan.files,
            files      |-> IF scan.failed THEN <<>> ELSE files,
            stats      |-> scan.stats,
            doc        |-> IF scan.failed THEN NoDoc ELSE doc,
            outputName |-> IF scan.failed THEN "" ELSE name,
            listed     |-> scan.listed,
            before     |-> outputs]
    /\ outputs' = Written(scan, name, DocumentText(doc))

\* what a run leaves alone
RunFrame ==
    /\ clock' = clock + 1
    /\ UNCHANGED <<workspace, pathSep, overrideFile, denied, symlinks, disk, selectedFiles,
                   globalState, fired, selectedFilesCount, selOps, lastSelection>>

\* extension.generateCodeBaseContext (showContextWizard) and
\* extension.generateQuickContext, down to generateCodebaseContext
\* generateCodebaseContext(rootPath, options) once the walk has returned
ContextRun(options, scan) ==
    Generation("context", options, enhancedRules, scan, scan.files,
               Document(<<>>,
                        buildEnhancedOutput(scan.files, scan.stats, Timestamp(clock + 1),
                                            options), <<>>),
               OutputNameOf(options.format), TRUE,
               "Next.js Contextify generated! ("
               \o ToString(scan.stats.totalFiles) \o " files, ~"
               \o toLocaleString(scan.stats.totalTokens) \o " tokens)")

GenerateCodebaseContext(options) ==
    /\ clock < MaxRuns
    /\ options \in WizardOptions
    /\ IF ~workspace
       THEN run' = Refused("context", options) /\ outputs' = outputs
       ELSE ContextRun(options, scanAndProcessFiles)
    /\ UNCHANGED currentStep
    /\ RunFrame

\* the 'generate' message of the webview panel: handleUIGeneration
\* handleUIGeneration from the build on: the stats are those of the walk
UIBuild(options, scan, filteredFiles) ==
    /\ Generation("ui", options, enhancedRules, scan, filteredFiles,
                  buildEnhancedOutputWithUI(filteredFiles, scan.stats, Timestamp(clock + 1),
                                            options),
                  OutputNameOf(options.format), TRUE,
                  "Context generated successfully! ("
                  \o ToString(Len(filteredFiles)) \o " files, ~"
                  \o toLocaleString(scan.stats.totalTokens) \o " tokens)")
    /\ currentStep' = IF ~scan.failed /\ disk = "ok" THEN 1 ELSE 3

\* the filter on the selection: all the files when no file is selected
UIRun(options, selected, scan) ==
    UIBuild(options, scan,
            IF Cardinality(selected) > 0
            THEN SelectSeq(scan.files, LAMBDA file : file.path \in selected)
            ELSE scan.files)

HandleUIGeneration(options) ==
    /\ clock < MaxRuns
    /\ workspace
    /\ options \in UIOptions
    /\ UIRun(options, getSelectedFiles, scanAndProcessFiles)
    /\ RunFrame

\* extension.generateWithPrompts (showPromptWizard), down to
\* generateCodebaseContextWithPrompts, which has no try/catch
PromptRun(options, promptType, scan) ==
    Generation("prompt", options, enhancedRules, scan, scan.files,
               buildPromptOutput(
                   buildEnhancedOutput(scan.files, scan.stats, Timestamp(clock + 1), options),
                   promptType),
               PromptOutputNameOf(promptType), FALSE,
               "Ready-to-use " \o promptType
               \o " prompt generated! Just copy and paste to your LLM.")

GenerateWithPrompts(promptType) ==
    /\ clock < MaxRuns
    /\ promptType \in PromptTypes
    /\ IF ~workspace
       THEN run' = Refused("prompt", PromptOptions(promptType)) /\ outputs' = outputs
       ELSE PromptRun(PromptOptions(promptType), promptType, scanAndProcessFiles)
    /\ UNCHANGED currentStep
    /\ RunFrame

(***************************************************************************)
(* The two earlier versions of the command (src/unnamed/part_000).         *)
(***************************************************************************)
\* generateCodebaseContext(rootPath, progress) of the second version: the walk
\* and the sort; FileInfo has no tokens and no size there
LegacyScanResult(walk) ==
    IF walk.failed THEN ScanFailed(walk) ELSE Scanned(sortFiles(walk.files), walk.listed)

legacyScan == LegacyScanResult(scanDirectory("", legacyRules, ScanStart))

buildContextString(files, timestamp) ==
    Document(<<>>,
             [format |-> "legacy", generated |-> timestamp, rootPath |-> rootPath,
              stats |-> computeStats(files), tree |-> <<>>,
              files |-> FileEntries(files, "legacy"), prompts |-> <<>>],
             <<>>)

LegacyWrite(scan, doc) ==
    Generation("legacy", NoOptions, legacyRules, scan, scan.files, doc, LegacyOutputName, TRUE,
               "Next.js codebase context generated successfully! ("
               \o ToString(Len(DocumentText(doc))) \o " characters)")

LegacyRun(scan) == LegacyWrite(scan, buildContextString(scan.files, Timestamp(clock + 1)))

\* extension.generateCodeBaseContext of the second version
LegacyGenerate ==
    /\ clock < MaxRuns
    /\ IF ~workspace
       THEN run' = Refused("legacy", NoOptions) /\ outputs' = outputs
       ELSE LegacyRun(legacyScan)
    /\ UNCHANGED currentStep
    /\ RunFrame

\* collectFiles of the first version: nothing is caught, a read, a listing or
\* a stat that throws ends the command; statSync follows symbolic links and
\* throws ELOOP on a path that goes through more than MaxLinks of them
RECURSIVE collectFiles(_, _)
RECURSIVE CollectEntries(_, _, _)
collectFiles(dir, acc) ==
    IF acc.failed THEN acc
    ELSE IF Throws(RealPath(dir))
         THEN [acc EXCEPT !.failed = TRUE,
                          !.error = "EACCES: permission denied, scandir '" \o dir \o "'"]
         ELSE CollectEntries(dir, Listing(RealPath(dir)),
                             [acc EXCEPT !.listed = @ \cup {dir}])

CollectEntries(dir, files, acc) ==
    IF files = <<>> \/ acc.failed THEN acc
    ELSE LET filePath     == PathJoin(dir, Head(files))
             relativePath == relative(filePath)
             next ==
                 IF ignores(collectRules, relativePath) THEN acc
                 ELSE IF FollowLinks(filePath, 0).links > MaxLinks
                      THEN [acc EXCEPT !.failed = TRUE,
                                       !.error = "ELOOP: too many symbolic links encountered, stat '"
                                                 \o filePath \o "'"]
                 ELSE IF StatIsDirectory(filePath) THEN collectFiles(filePath, acc)
                 ELSE IF Throws(RealPath(filePath))
                      THEN [acc EXCEPT !.failed = TRUE,
                                       !.error = "EACCES: permission denied, open '"
                                                 \o filePath \o "'"]
                      ELSE [acc EXCEPT !.files = Append(@,
                               [path |-> relativePath, content |-> ReadText(RealPath(filePath)),
                                priority |-> 0, category |-> "", tokens |-> 0, size |-> 0])]
         IN  CollectEntries(dir, Tail(files), next)

\* the matcher of the first version is built before the walk; reading an
\* override file that exists but cannot be read throws
CollectScanResult(walk) ==
    IF walk.failed THEN ScanFailed(walk) ELSE Scanned(walk.files, walk.listed)

collectScan ==
    CollectScanResult(
        IF overrideFile = "unreadable"
        THEN [ScanStart EXCEPT !.failed = TRUE,
                               !.error = "EACCES: permission denied, open '"
                                         \o CollectOverrideName \o "'"]
        ELSE collectFiles("", ScanStart))

\* collectedInfo: one block per file, in the order of the walk
CollectRun(scan) ==
    Generation("collect", NoOptions, collectRules, scan, scan.files,
               Document(<<>>,
                        [format |-> "plain", generated |-> "", rootPath |-> rootPath,
                         stats |-> scan.stats, tree |-> <<>>,
                         files |-> FileEntries(scan.files, "plain"),
                         prompts |-> <<>>], <<>>),
               CollectOutputName, FALSE, "Codebase context collected successfully!")

\* extension.collectCodebaseContext of the first version
LegacyCollect ==
    /\ clock < MaxRuns
    /\ IF ~workspace
       THEN run' = Refused("collect", NoOptions) /\ outputs' = outputs
       ELSE CollectRun(collectScan)
    /\ UNCHANGED currentStep
    /\ RunFrame

(***************************************************************************)
(* Initial states and the next-state relation.                             *)
(***************************************************************************)
\* the projects the model starts from: the override file, the paths that
\* cannot be read or listed, the state of the disk, what globalState holds
\* from an earlier session (nothing, a selection whose file is gone, or the
\* app directory as it was selected when it still held removed.tsx), the
\* host (POSIX, or Windows for one of them) and the symbolic links (none, or
\* public/up for one of them)
Profile(o, d, k, g) ==
    [overrideFile |-> o, denied |-> d, disk |-> k, globalState |-> g, pathSep |-> "/",
     symlinks |-> {}]

Profiles ==
    {Profile("absent", {}, "ok", {}),
     Profile("readable", {}, "ok", {}),
     Profile("unreadable", {}, "ok", {}),
     Profile("absent", {"app/error.tsx"}, "ok", {}),
     Profile("absent", {"locked"}, "ok", {}),
     Profile("readable", {"locked"}, "ok", {}),
     Profile("absent", {}, "readonly", {}),
     Profile("absent", {}, "full", {}),
     Profile("absent", {}, "ok", {"old/removed.ts"}),
     Profile("absent", {}, "ok", {"app", "app/error.tsx", "app/loading.tsx", "app/removed.tsx"}),
     [Profile("absent", {}, "ok", {}) EXCEPT !.pathSep = "\\"],
     [Profile("absent", {}, "ok", {}) EXCEPT !.symlinks = {"public/up"}]}

Init ==
    /\ workspace \in BOOLEAN
    /\ \E p \in Profiles :
           /\ overrideFile = p.overrideFile
           /\ denied = p.denied
           /\ disk = p.disk
           /\ globalState = p.globalState
           /\ pathSep = p.pathSep
           /\ symlinks = p.symlinks
           /\ workspace = FALSE => p = Profile("absent", {}, "ok", {})
    /\ outputs = <<>>
    /\ selectedFiles = globalState
    /\ fired = [any |-> globalState # {}, files |-> globalState]
    /\ currentStep = 1
    /\ selectedFilesCount = 0
    /\ run = NoRun
    /\ clock = 0
    /\ selOps = 0
    /\ lastSelection = NoSelectionOp

Next ==
    \/ selectAll
    \/ deselectAll
    \/ \E item \in ClickItems : toggleSelection(item)
    \/ \E item \in ClickItems : \E checked \in BOOLEAN : onDidChangeCheckboxState(item, checked)
    \/ \E options \in WizardOptions : GenerateCodebaseContext(options)
    \/ \E options \in UIOptions : HandleUIGeneration(options)
    \/ \E promptType \in PromptTypes : GenerateWithPrompts(promptType)
    \/ LegacyGenerate
    \/ LegacyCollect

Spec == Init /\ [][Next]_vars

(***************************************************************************)
(* Properties.                                                             *)
(***************************************************************************)
\* the commands that rank the files they found
RankedKinds == {"context", "ui", "prompt", "legacy"}

\* the commands of extension.ts
EnhancedKinds == {"context", "ui", "prompt"}

PathsOf(files) == [i \in 1..Len(files) |-> files[i].path]

PathSet(files) == {files[i].path : i \in 1..Len(files)}

\* the files of the project the records stand for
FileSet(files) == {Resolve(files[i].path) : i \in 1..Len(files)}

\* ordinal comparison of two strings
OrdinalBefore(a, b) == CompareBy("codeunit", a, b) < 0

\* a has to be placed before b
RanksBefore(a, b) ==
    \/ a.priority > b.priority
    \/ a.priority = b.priority /\ OrdinalBefore(a.category, b.category)

Ranked(files) ==
    \A i, j \in 1..Len(files) : i < j => ~RanksBefore(files[j], files[i])

\* C1: the files a ranking command gets from the walk are in order of priority,
\* highest first, and of category within one priority; the document of the run,
\* in XML, Markdown or JSON, lists its files in that same order.
C1_RankedOrder ==
    run.kind \in RankedKinds =>
        /\ Ranked(run.walked)
        /\ Ranked(run.doc.base.files)
        /\ PathsOf(run.doc.base.files) = PathsOf(run.files)

\* a completed JSON run in which the walk met app/error.tsx before
\* app/loading.tsx (same priority 70) and the document lists them the other
\* way round, after every file of a higher priority
C1_Witness ==
    /\ run.kind = "context"
    /\ run.outcome = "completed"
    /\ run.doc.base.format = "json"
    /\ \E i, j \in 1..Len(run.doc.base.files) :
           /\ i < j
           /\ run.doc.base.files[i].path = "app/loading.tsx"
           /\ run.doc.base.files[j].path = "app/error.tsx"
           /\ run.doc.base.files[i].priority = run.doc.base.files[j].priority
    /\ \E i, j \in 1..Len(run.doc.base.files) :
           run.doc.base.files[i].priority > run.doc.base.files[j].priority

\* C2: in handleUIGeneration, with a non-empty selection set the files put in
\* the output are exactly the walked files that are in the selection set.
C2_SelectionFilter ==
    (run.kind = "ui" /\ run.outcome = "completed" /\ run.selected # {}) =>
        PathSet(run.files) = PathSet(run.walked) \cap run.selected

\* C3: two successive completed runs of the same command with the same options
\* and the same selection, on a project nobody edited in between, give the
\* same document apart from the generation timestamp.
Undated(doc) == [doc EXCEPT !.base.generated = ""]

SuccessiveRuns ==
    /\ clock' = clock + 1
    /\ run.kind \in EnhancedKinds
    /\ run'.kind = run.kind
    /\ run'.options = run.options
    /\ run'.selected = run.selected
    /\ run.outcome = "completed"
    /\ run'.outcome = "completed"

C3_Repeatable == [][SuccessiveRuns => Undated(run'.doc) = Undated(run.doc)]_vars

\* the regular files under the root when the last run started
StaticFiles ==
    UNION {{PathJoin(d, StaticChildren(d)[i]) : i \in 1..Len(StaticChildren(d))} :
              d \in StaticDirs} \ StaticDirs

FilesBefore ==
    StaticFiles \cup SeqToSet(OverrideEntries)
        \cup {run.before[i].name : i \in 1..Len(run.before)}

\* the matcher of the last run excludes the path (or one of its ancestors)
Excluded(p) == p \in IgnoreTable[run.rules]

\* the walk of the last run came to its end
WalkDone == run.kind \in RankedKinds /\ run.stage \notin {"workspace", "scan"}

\* C4: a file under the root is in the file list of the walk if and only if the
\* matcher (defaults, then the override file's patterns, the last match winning,
\* '!' re-including) does not exclude it; node_modules/x/y.js is never in the
\* list and no excluded directory is listed.
C4_WalkIffNotExcluded ==
    WalkDone =>
        /\ \A p \in FilesBefore : p \in FileSet(run.walked) <=> ~Excluded(p)
        /\ "node_modules/x/y.js" \notin FileSet(run.walked)
        /\ \A d \in StaticDirs \ {""} : Excluded(d) => d \notin run.listed

\* C4 as amended: a file is in the list if and only if the matcher does not
\* exclude it and it can be read.
C4_WalkIffReadableNotExcluded ==
    WalkDone =>
        /\ \A p \in FilesBefore :
               p \in FileSet(run.walked) <=> (~Excluded(p) /\ p \notin denied)
        /\ "node_modules/x/y.js" \notin FileSet(run.walked)
        /\ \A d \in StaticDirs \ {""} : Excluded(d) => d \notin run.listed

\* a finished walk that lost app/error.tsx to a read error, kept its sibling
\* and kept out what is under node_modules
C4_Witness ==
    /\ WalkDone
    /\ run.kind = "context"
    /\ "app/error.tsx" \in denied
    /\ ~Excluded("app/error.tsx")
    /\ "app/error.tsx" \notin FileSet(run.walked)
    /\ "app/loading.tsx" \in FileSet(run.walked)
    /\ Excluded("node_modules/x/y.js")

IsPrefix(p, q) == Len(p) <= Len(q) /\ SubSeq(q, 1, Len(p)) = p

DefaultsOf(kind) ==
    CASE kind \in EnhancedKinds -> defaultIgnore
      [] kind = "legacy"        -> legacyDefaultIgnore
      [] kind = "collect"       -> collectDefaultIgnore

\* C5: wherever a matcher is built while a readable override file is at the
\* root, its pattern list is the default list followed by the lines of the
\* override file.
C5_OverrideExtendsDefaults ==
    overrideFile = "readable" =>
        /\ createIgnoreFilter = defaultIgnore \o Split(OverrideText, "\n")
        /\ (run.kind # "none" /\ run.stage # "workspace") =>
               run.rules = DefaultsOf(run.kind) \o Split(OverrideText, "\n")

\* C6: a run of the commands of extension.ts that does not complete was
\* stopped by the missing workspace or by the write; never by the walk.
C6_OnlyRootFailuresAbort ==
    (run.kind \in EnhancedKinds /\ run.outcome # "completed") =>
        run.stage \in {"workspace", "write"}

\* C7: a file whose bytes are not valid UTF-8 is not in the file list.
C7_BinaryDropped ==
    (run.kind \in EnhancedKinds /\ run.stage \notin {"workspace", "scan"}) =>
        PathSet(run.walked) \cap Binary = {}

\* the output files the last run created or changed
ChangedNames ==
    {outputs[i].name : i \in {k \in 1..Len(outputs) : outputs[k] \notin SeqToSet(run.before)}}

\* C8: a run either completes, having written exactly one output file, or
\* does not complete and has created or changed no output file.
C8_AllOrNothing ==
    run.kind # "none" =>
        IF run.outcome = "completed"
        THEN ChangedNames = {run.outputName}
        ELSE outputs = run.before

\* C8 as amended: a run that completes has written exactly one output file,
\* holding the document it built; a run stopped before the write (no workspace,
\* a failure of the walk) has created or changed no output file; a run stopped
\* by the write has touched no file but its own output file.
C8_NoOutputBeforeWrite ==
    run.kind # "none" =>
        /\ run.outcome = "completed" =>
               /\ ChangedNames = {run.outputName}
               /\ ReadText(run.outputName) = DocumentText(run.doc)
        /\ run.stage \in {"workspace", "scan"} => outputs = run.before
        /\ run.stage = "write" => ChangedNames \subseteq {run.outputName}

\* a run of extension.ts that the walk stopped: no output file exists after it
C8_Witness ==
    /\ run.kind \in EnhancedKinds
    /\ run.outcome = "aborted"
    /\ run.stage = "scan"
    /\ "locked" \in denied
    /\ outputs = <<>>

\* what the command itself wrote of a message: the text without the cause
Authored(text, cause) ==
    IF EndsWith(text, cause) THEN SubSeq(text, 1, Len(text) - Len(cause)) ELSE text

NamesStage(text, stage) ==
    CASE stage = "scan"  -> Includes(text, "scan") \/ Includes(text, "Scan")
      [] stage = "write" -> Includes(text, "writ") \/ Includes(text, "Writ")
      [] OTHER           -> TRUE

\* C9: a run of extension.ts that is aborted shows an error message, and the
\* text the command puts before the cause names the stage that failed.
C9_StageReported ==
    (run.kind \in EnhancedKinds /\ run.outcome = "aborted") =>
        /\ run.message.level = "error"
        /\ NamesStage(Authored(run.message.text, run.error), run.stage)

\* C10: a completed run of extension.ts with options.format = 'json' has
\* written one JSON object: nothing before its opening brace, nothing after
\* its closing brace.
C10_JsonValid ==
    (run.kind \in EnhancedKinds /\ run.outcome = "completed" /\ run.options.format = "json") =>
        /\ StartsWith(ReadText(run.outputName), "{")
        /\ EndsWith(ReadText(run.outputName), "}")
        /\ run.doc.pre = <<>>
        /\ run.doc.post = <<>>

\* the prompt-suggestion block of the last run as text
PromptBlockOf(stats, options) ==
    PromptBlockText(<<generatePromptSuggestions(stats, options.targetLLM)>>)

\* C11: when options.includePrompts is true the document the builder returns
\* ends with the prompt-suggestion block (the ready-to-use prompts and the
\* token-usage summary), in XML, in Markdown and in JSON.
C11_PromptBlockLast ==
    (run.kind \in EnhancedKinds /\ run.outcome = "completed" /\ run.options.includePrompts) =>
        /\ run.doc.base.prompts # <<>>
        /\ EndsWith(BaseText(run.doc.base), PromptBlockOf(run.stats, run.options))

\* the longest content whose XML body is decoded
MaxDecoded == 64

\* the reference a standard XML text decoder reads at the start of what
\* follows an ampersand
DecodeRef(t) ==
    IF StartsWith(t, "amp;") THEN "&" \o Rest(t, 5)
    ELSE IF StartsWith(t, "lt;") THEN "<" \o Rest(t, 4)
    ELSE IF StartsWith(t, "gt;") THEN ">" \o Rest(t, 4)
    ELSE IF StartsWith(t, "quot;") THEN "\"" \o Rest(t, 6)
    ELSE IF StartsWith(t, "apos;") THEN "'" \o Rest(t, 6)
    ELSE "&" \o t

DecodeParts(parts) ==
    Join([i \in 1..Len(parts) |-> IF i = 1 THEN parts[i] ELSE DecodeRef(parts[i])], "")

\* a standard XML text decoder: one pass, the five predefined entities
unescapeXML(s) == DecodeParts(Split(s, "&"))

SpecialChars == {"&", "<", ">", "\"", "'"}

HasSpecial(content) == \E i \in 1..Len(content) : CharAt(content, i) \in SpecialChars

ReviewHeadings == {PromptTemplate("review")[1], "# " \o ExtendedPromptTitle("code-review")}

\* C13: a prompt key that is missing or is not a key of the template set makes
\* the composed document use the review template, in buildPromptOutput and
\* for the selectedPrompt key of buildEnhancedOutputWithUI.
C13_ReviewFallback ==
    /\ (run.kind = "prompt" /\ run.outcome = "completed"
            /\ run.options.promptType \notin WizardPromptTypes) =>
           run.doc.pre[1].heading \in ReviewHeadings
    /\ (run.kind = "ui" /\ run.outcome = "completed"
            /\ run.options.selectedPrompt \notin ExtendedPromptKeys) =>
           /\ run.doc.pre # <<>>
           /\ run.doc.pre[1].heading \in ReviewHeadings

\* the place of the first section with this heading, 0 when there is none
SectionAt(sections, heading) ==
    LET hits == {i \in 1..Len(sections) : sections[i].heading = heading}
    IN  IF hits = {} THEN 0 ELSE CHOOSE i \in hits : \A j \in hits : i <= j

\* the part of a text before the first line that is this heading
TextBefore(text, heading) ==
    LET hits == {i \in 1..(Len(text) - Len(heading) + 1) :
                     SubSeq(text, i, i + Len(heading) - 1) = heading}
    IN  IF hits = {} THEN ""
        ELSE SubSeq(text, 1, (CHOOSE i \in hits : \A j \in hits : i <= j) - 1)

IntroOf(name) == TextBefore(ReadText(name), "# Codebase Context")

\* C14: in a document of buildEnhancedOutputWithUI a non-empty userPrompt and
\* every rule of a non-empty rules list are there, before the
\* '# Codebase Context' block, whatever selectedPrompt is.
C14_UserTextKept ==
    (run.kind = "ui" /\ run.outcome = "completed") =>
        /\ run.options.userPrompt # "" =>
               /\ \E i \in 1..Len(run.doc.pre) :
                      /\ run.doc.pre[i].body = run.options.userPrompt
                      /\ i < SectionAt(run.doc.pre, "# Codebase Context")
               /\ Includes(IntroOf(run.outputName), run.options.userPrompt)
        /\ \A r \in 1..Len(run.options.rules) :
               /\ \E i \in 1..Len(run.doc.pre) :
                      /\ Includes(run.doc.pre[i].body, "- " \o run.options.rules[r])
                      /\ i < SectionAt(run.doc.pre, "# Codebase Context")
               /\ Includes(IntroOf(run.outputName), "- " \o run.options.rules[r])

\* a completed UI run with a selectedPrompt that is no key of the library and
\* a userPrompt, written before the context block
C14_Witness ==
    /\ run.kind = "ui"
    /\ run.outcome = "completed"
    /\ run.options.selectedPrompt # ""
    /\ run.options.selectedPrompt \notin ExtendedPromptKeys
    /\ run.options.userPrompt # ""
    /\ Includes(IntroOf(run.outputName), run.options.userPrompt)

\* a text of n characters
RECURSIVE Filler(_)
Filler(n) ==
    IF n = 0 THEN "" ELSE IF n = 1 THEN "x" ELSE Filler(n \div 2) \o Filler(n - (n \div 2))

\* the estimates for texts of 0, 1, 4, 5 and 4000 characters
EstimateTable == [n \in {0, 1, 4, 5, 4000} |-> estimateTokens(Filler(n))]

\* t is the least integer that is not below n / 4
IsCeilOfQuarter(t, n) == 4 * t >= n /\ 4 * (t - 1) < n

\* the walk of scanAndProcessFiles came to its end
EnhancedWalkDone == run.kind \in EnhancedKinds /\ run.stage \notin {"workspace", "scan"}

\* C15: every record scanAndProcessFiles returns has tokens = ceil(content.length / 4),
\* computed from the content it holds (0 only for an empty content), and the
\* estimate is 0, 1, 1, 2 and 1000 for 0, 1, 4, 5 and 4000 characters.
C15_TokensAreCeil ==
    /\ EstimateTable = [n \in {0, 1, 4, 5, 4000} |->
                           CASE n = 0 -> 0 [] n = 1 -> 1 [] n = 4 -> 1 [] n = 5 -> 2
                             [] OTHER -> 1000]
    /\ EnhancedWalkDone =>
           \A i \in 1..Len(run.walked) :
               /\ IsCeilOfQuarter(run.walked[i].tokens, Len(run.walked[i].content))
               /\ run.walked[i].tokens = 0 <=> run.walked[i].content = ""

\* a finished walk that returned a record with an empty content and 0 tokens
\* (the output file a full disk left empty) and a record whose length is no
\* multiple of 4, its estimate rounded up
C15_Witness ==
    /\ EnhancedWalkDone
    /\ \E i \in 1..Len(run.walked) :
           run.walked[i].content = "" /\ run.walked[i].tokens = 0
    /\ \E i \in 1..Len(run.walked) :
           /\ Len(run.walked[i].content) % 4 # 0
           /\ 4 * run.walked[i].tokens > Len(run.walked[i].content)

\* the sum of a numeric field over the records at the places in S
RECURSIVE TotalAt(_, _, _)
TotalAt(files, field, S) ==
    IF S = {} THEN 0
    ELSE LET i == CHOOSE k \in S : TRUE
         IN  files[i][field] + TotalAt(files, field, S \ {i})

RECURSIVE TotalOf(_, _)
TotalOf(counts, S) ==
    IF S = {} THEN 0
    ELSE LET c == CHOOSE k \in S : TRUE IN counts[c] + TotalOf(counts, S \ {c})

\* C16: the ContextStats scanAndProcessFiles returns are a reduction over the
\* file list it returns: the number of records, the sum of their tokens, the
\* sum of their sizes and, per category, the number of records that carry it;
\* the counts of the histogram add up to totalFiles.
C16_StatsAreReduction ==
    EnhancedWalkDone =>
        /\ run.stats.totalFiles = Len(run.walked)
        /\ run.stats.totalTokens = TotalAt(run.walked, "tokens", 1..Len(run.walked))
        /\ run.stats.totalSize = TotalAt(run.walked, "size", 1..Len(run.walked))
        /\ DOMAIN run.stats.categories = {run.walked[i].category : i \in 1..Len(run.walked)}
        /\ \A c \in DOMAIN run.stats.categories :
               run.stats.categories[c] =
                   Cardinality({i \in 1..Len(run.walked) : run.walked[i].category = c})
        /\ TotalOf(run.stats.categories, DOMAIN run.stats.categories) = run.stats.totalFiles

\* a finished walk with records of several categories, one of them carried
\* by more than one record, and a size that differs from the length
C16_Witness ==
    /\ EnhancedWalkDone
    /\ Cardinality(DOMAIN run.stats.categories) > 1
    /\ \E c \in DOMAIN run.stats.categories : run.stats.categories[c] > 1
    /\ run.stats.totalFiles > Cardinality(DOMAIN run.stats.categories)
    /\ run.stats.totalTokens > 0

\* the range README.md documents for a letter group
GroupRange(letter) ==
    CASE letter = "A" -> 80..100
      [] letter = "B" -> 60..80
      [] letter = "C" -> 68..78
      [] letter = "D" -> 50..55
      [] letter = "E" -> 45..48
      [] letter = "F" -> 40..42
      [] letter = "G" -> 30..35
      [] letter = "H" -> 10..25
      [] OTHER        -> {}

InDocumentedRange(rule) ==
    rule.priority \in 0..100 /\ rule.priority \in GroupRange(CharAt(rule.category, 1))

\* a path (with a content) for every return of categorizeFile
SamplePaths ==
    {"next.config.mjs", "package.json", "app/tsconfig.json", "tailwind.config.ts",
     "app/layout.tsx", "app/shop/page.js", "app/loading.tsx", "app/error.js",
     "app/not-found.tsx", "app/template.js", "app/global-error.tsx", "app/api/route.ts",
     "app/shop/cart.tsx", "pages/_app.tsx", "pages/_document.js", "pages/_error.tsx",
     "pages/404.tsx", "pages/500.js", "pages/api/hello.ts", "pages/index.tsx",
     "components/Button.tsx", "src/components/Card.tsx", "ui/badge.tsx",
     "hooks/cart.ts", "useCart.ts", "src/lib/db.ts", "utils/fmt.js", "store/index.ts",
     "redux.ts", "prisma/x.prisma", "db/seed.sql", "middleware.ts",
     "styles/a.css", "main.scss", "x/button.less", "x/a.jsx", "x/a.yaml",
     "x/config", "x/README.mdx", "x/LICENSE", ""}

SampleContents == {"", "'use client'\nexport {}", "\"use client\""}

SampleRules == {categorizeFile(p, c) : p \in SamplePaths, c \in SampleContents}

\* C17: categorizeFile returns an integer priority in [0,100] inside the range
\* README.md documents for the letter group of the category it returns.
C17_PriorityInGroupRange ==
    /\ \A rule \in SampleRules : InDocumentedRange(rule)
    /\ EnhancedWalkDone =>
           \A i \in 1..Len(run.walked) :
               /\ InDocumentedRange(run.walked[i])
               /\ Rule(run.walked[i].priority, run.walked[i].category)
                      = categorizeFile(run.walked[i].path, run.walked[i].content)

\* a finished walk with records of the groups B, F and H, while the sample
\* paths reach the 34 returns of categorizeFile
C17_Witness ==
    /\ EnhancedWalkDone
    /\ {"B", "F", "H"} \subseteq {CharAt(run.walked[i].category, 1) : i \in 1..Len(run.walked)}
    /\ pathSep = "/" => Cardinality(SampleRules) = 34

\* the extensions that name a language of a fenced code block
RecognizedLanguages ==
    {"ts", "tsx", "js", "jsx", "mjs", "cjs", "json", "css", "scss", "sass", "less",
     "html", "xml", "md", "mdx", "yaml", "yml", "sh", "sql", "prisma", "graphql", "txt"}

\* C18: in the Markdown output the tag of a file's code fence is the file's
\* extension when that is a recognized language, and the generic tag (text)
\* when the file has no extension or an extension that is no language.
C18_FenceTagDefault ==
    (run.kind \in EnhancedKinds /\ run.outcome = "completed"
         /\ run.options.format = "markdown") =>
        \A i \in 1..Len(run.doc.base.files) :
            LET ext == ExtName(BaseName(run.doc.base.files[i].path))
            IN  run.doc.base.files[i].lang =
                    IF Len(ext) > 1 /\ Rest(ext, 2) \in RecognizedLanguages
                    THEN Rest(ext, 2) ELSE "text"

\* C19: the path of every file record is the path from the project root
\* written with forward slashes, whatever the separator of the host is; the
\* classifier and the project tree are given that form.
C19_ForwardSlashPaths ==
    EnhancedWalkDone =>
        \A i \in 1..Len(run.walked) :
            /\ ~Includes(run.walked[i].path, "\\")
            /\ run.walked[i].path \in FilesBefore
            /\ Rule(run.walked[i].priority, run.walked[i].category)
                   = categorizeFile(Resolve(run.walked[i].path), run.walked[i].content)

\* the path is the directory or is under it
Under(dir, p) == p = dir \/ StartsWith(p, dir \o pathSep)

\* the last selection operation deselected a directory: toggleSelection on a
\* selected directory, or its checkbox unchecked
DirectoryDeselected ==
    /\ lastSelection.op \in {"toggle", "checkbox"}
    /\ IsDirectory(lastSelection.item)
    /\ ~lastSelection.checked

\* C20: after a directory is deselected, the directory and every path under
\* it are absent from the selection set.
C20_DirectoryDeselected ==
    DirectoryDeselected =>
        \A p \in selectedFiles : ~Under(relative(lastSelection.item), p)

\* the threshold the specification gives for a target
DocumentedThreshold(llm) ==
    CASE llm = "claude" -> 150000
      [] llm = "gpt"    -> 100000
      [] llm = "gemini" -> 800000
      [] OTHER          -> 100000

\* the four targets of the options and a name that is none of them
SampleTargets == {"claude", "gpt", "gemini", "custom", "llama"}

WarningText == "**Warning:** Context might be too large. Consider filtering specific directories."

GoodText == "**Good:** Context size is optimal for LLM processing."

\* the block for a total of t tokens shows the message that is due
MessageDue(llm, t) ==
    LET block == PromptBlockOf([computeStats(<<>>) EXCEPT !.totalTokens = t],
                               [targetLLM |-> llm])
    IN  /\ Includes(block, WarningText) <=> t > DocumentedThreshold(llm)
        /\ Includes(block, GoodText) <=> ~(t > DocumentedThreshold(llm))

IsMiddleware(relativePath) == BaseName(relativePath) \in {"middleware.ts", "middleware.js"}

\* middleware files at the root and in the directories of earlier rules
MiddlewarePaths ==
    {"middleware.ts", "middleware.js", "src/middleware.ts", "app/middleware.ts",
     "pages/middleware.js", "components/middleware.ts", "lib/middleware.ts",
     "src/utils/middleware.js", "store/middleware.ts"}

\* C22: the rules of categorizeFile are ordered from high to low priority, so
\* a file that satisfies the guard of the middleware rule (priority 82) is
\* never given a lower priority by another rule it also satisfies: every file
\* named middleware.ts or middleware.js gets 82 / A5_Middleware whatever its
\* directory and content.
C22_MiddlewareWhateverDirectory ==
    \A p \in MiddlewarePaths \cup SamplePaths : \A c \in SampleContents :
        IsMiddleware(p) =>
            /\ categorizeFile(p, c).priority >= 82
            /\ categorizeFile(p, c) = Rule(82, "A5_Middleware")

\* the longest string of the escape samples
MaxEscaped == 4

EscapeAlphabet == {"&", "<", ">", "\"", "'", "a", ";"}

RECURSIVE StringsUpTo(_)
StringsUpTo(n) ==
    IF n = 0 THEN {""}
    ELSE StringsUpTo(n - 1) \cup {s \o c : s \in StringsUpTo(n - 1), c \in EscapeAlphabet}

\* every string of at most MaxEscaped characters of the alphabet, and texts
\* that hold entities already
EscapeSamples ==
    StringsUpTo(MaxEscaped)
    \cup {"&amp;", "&lt;", "&amp;lt;", "&quot;&apos;", "a && b", "&#38;", "<a href=\"x\">'&'</a>"}

\* the entity of one character
Entity(c) ==
    CASE c = "&"  -> "&amp;"
      [] c = "<"  -> "&lt;"
      [] c = ">"  -> "&gt;"
      [] c = "\"" -> "&quot;"
      [] c = "'"  -> "&apos;"
      [] OTHER    -> c

\* one pass over the characters of s, each replaced by its entity
SinglePass(s) == Join([i \in 1..Len(s) |-> Entity(CharAt(s, i))], "")

EscapedOnce(s) ==
    /\ escapeXML(s) = SinglePass(s)
    /\ unescapeXML(escapeXML(s)) = s
    /\ Len(escapeXML(s)) =
           Len(s) + 4 * Cardinality({i \in 1..Len(s) : CharAt(s, i) = "&"})
                  + 3 * Cardinality({i \in 1..Len(s) : CharAt(s, i) \in {"<", ">"}})
                  + 5 * Cardinality({i \in 1..Len(s) : CharAt(s, i) \in {"\"", "'"}})

SamplesEscapedOnce == \A s \in EscapeSamples : EscapedOnce(s)

\* C23: escapeXML gives what one pass that replaces each of & < > " ' by its
\* entity gives, so no & it introduced is escaped again, and the standard
\* XML unescape of escapeXML(s) is s: for every sample string and for every
\* file body of a written XML document.
C23_EscapedOnce ==
    /\ SamplesEscapedOnce
    /\ (run.kind \in EnhancedKinds /\ run.outcome = "completed"
        /\ run.options.format = "xml") =>
           \A i \in 1..Len(run.files) :
               Len(run.files[i].content) <= MaxDecoded =>
                   /\ run.doc.base.files[i].body = escapeXML(run.files[i].content)
                   /\ EscapedOnce(run.files[i].content)

\* a written XML document with README.md, whose & and < > are each written
\* as one entity
C23_Witness ==
    /\ run.kind \in EnhancedKinds
    /\ run.outcome = "completed"
    /\ run.options.format = "xml"
    /\ \E i \in 1..Len(run.files) :
           /\ run.files[i].path = "README.md"
           /\ run.files[i].content = "# Shop & <docs>"
           /\ run.doc.base.files[i].body = "# Shop &amp; &lt;docs&gt;"
           /\ ~Includes(run.doc.base.files[i].body, "&amp;lt;")

\* the path prefixes of a list of files, each as its sequence of segments
SegmentPrefixes(parts) == {SubSeq(parts, 1, k) : k \in 1..Len(parts)}

PrefixesOf(files) == UNION {SegmentPrefixes(Split(files[i].path, "/")) : i \in 1..Len(files)}

\* the line of a prefix: its last segment after two spaces per ancestor segment
LineOf(prefix) == Spaces(Len(prefix) - 1) \o prefix[Len(prefix)]

\* the lines are, counted with repetitions, the lines of the prefixes
OneLinePerPrefix(files, lines) ==
    /\ Len(lines) = Cardinality(PrefixesOf(files))
    /\ \A q \in PrefixesOf(files) :
           Cardinality({i \in 1..Len(lines) : lines[i] = LineOf(q)})
               = Cardinality({r \in PrefixesOf(files) : LineOf(r) = LineOf(q)})

PathList(paths) == [i \in 1..Len(paths) |-> [path |-> paths[i]]]

\* lists with shared prefixes, a repeated path, equal names in two
\* directories, and no file at all
SampleLists ==
    {PathList(<<>>),
     PathList(<<"a.ts">>),
     PathList(<<"app/page.tsx", "app/layout.tsx", "app/shop/page.tsx", "app/shop/cart/page.tsx">>),
     PathList(<<"lib/x.ts", "app/x.ts", "x.ts", "lib/x.ts">>),
     PathList(<<"src/app/a/b.ts", "src/lib/a/b.ts", "src/app/a/c.ts", "README.md">>),
     PathList(<<"b/a", "a/b", "a,b/c", "a/b/c">>)}

SampleTreesExact == \A files \in SampleLists : OneLinePerPrefix(files, generateProjectTree(files))

\* C24: generateProjectTree emits one line for each distinct path prefix of
\* the list (each file, each ancestor directory) and no other line: every
\* prefix once, as its last segment after two spaces per ancestor segment,
\* however many files share it; for the sample lists and for the tree of
\* every XML or Markdown document of a run.
C24_OneLinePerPrefix ==
    /\ SampleTreesExact
    /\ (run.kind \in EnhancedKinds /\ run.stage \notin {"workspace", "scan"}
        /\ run.options.format \in {"xml", "markdown"}) =>
           OneLinePerPrefix(run.files, run.doc.base.tree)

\* a document with two files of the directory app: one line for app, one
\* for each file below it
C24_Witness ==
    /\ run.kind \in EnhancedKinds
    /\ run.outcome = "completed"
    /\ run.options.format \in {"xml", "markdown"}
    /\ {"app/error.tsx", "app/loading.tsx"} \subseteq PathSet(run.files)
    /\ Cardinality({i \in 1..Len(run.doc.base.tree) : run.doc.base.tree[i] = "app"}) = 1
    /\ \E i, j \in 1..Len(run.doc.base.tree) :
           run.doc.base.tree[i] = "  error.tsx" /\ run.doc.base.tree[j] = "  loading.tsx"

\* the names of the files the earlier runs have written
WrittenBefore == {run.before[j].name : j \in 1..Len(run.before)}

\* C25: the output file an earlier run has written is never an input of a
\* later run: the file list of a run holds no file that a previous run
\* created (nextjs-contextify-<format>.<ext>, nextjs-contextify-<promptType>.txt).
C25_OutputNeverInput ==
    (run.kind \in EnhancedKinds /\ run.stage \notin {"workspace", "scan"}) =>
        /\ FileSet(run.walked) \cap WrittenBefore = {}
        /\ FileSet(run.files) \cap WrittenBefore = {}

\* C26: in every written document the file count and the token total of the
\* metadata, which are also the figures of the prompt-suggestion block, are
\* the number and the summed tokens of the file entries of the document,
\* also when handleUIGeneration has filtered the files by a selection.
C26_MetadataOfEntries ==
    (run.kind \in EnhancedKinds /\ run.outcome = "completed") =>
        /\ run.doc.base.stats.totalFiles = Len(run.doc.base.files)
        /\ run.doc.base.stats.totalTokens
               = TotalAt(run.doc.base.files, "tokens", 1..Len(run.doc.base.files))
        /\ run.doc.base.prompts # <<>> =>
               /\ run.doc.base.prompts[1].totalFiles = Len(run.doc.base.files)
               /\ run.doc.base.prompts[1].totalTokens
                      = TotalAt(run.doc.base.files, "tokens", 1..Len(run.doc.base.files))

\* the files the tree view offered when the run started: those it offers
\* now, less the output file if this run has created it
SelectableAtStart == getAllFiles \ ({run.outputName} \ WrittenBefore)

\* C27: a UI generation with every selectable file selected (after selectAll)
\* gives the file list a UI generation with an empty selection gives, which
\* is every file the walk returns: the filter of the tree view and the filter
\* of the walker accept the same paths.
C27_SelectAllIsNoSelection ==
    (run.kind = "ui" /\ run.outcome = "completed") =>
        /\ \A p \in PathUniverse :
               ignores(createIgnoreFilter, p) <=> ignores(run.rules, p)
        /\ run.selection = {} => run.files = run.walked
        /\ SelectableAtStart \subseteq run.selected => run.files = run.walked

\* a UI generation after selectAll, with several files selected and written
C27_Witness ==
    /\ run.kind = "ui"
    /\ run.outcome = "completed"
    /\ lastSelection.op = "selectAll"
    /\ SelectableAtStart \subseteq run.selected
    /\ Cardinality(run.selection) > 1
    /\ Len(run.files) > 1

\* C28: when a UI generation attempt has ended, with the file written or with
\* an error, the step indicator (StepsTreeProvider.currentStep) is back at
\* step 1.
C28_StepBackAtOne ==
    [][(clock' = clock + 1 /\ run'.kind = "ui") => currentStep' = 1]_vars

\* C29: once a selection operation has finished (selectAll, deselectAll,
\* toggleSelection, a checkbox change that altered the set), the selection
\* stored in globalState is the in-memory selection and a selection-changed
\* event carrying that set has been fired; after deselectAll both are empty.
C29_SelectionStoredAndFired ==
    lastSelection.op # "none" =>
        /\ globalState = selectedFiles
        /\ fired.any
        /\ fired.files = selectedFiles
        /\ lastSelection.op = "deselectAll" => (selectedFiles = {} /\ globalState = {})

\* deselectAll on a selection that was not empty: nothing is stored, and the
\* event carried the empty set
C29_Witness ==
    /\ lastSelection.op = "deselectAll"
    /\ lastSelection.before # {}
    /\ selectedFiles = {}
    /\ globalState = {}
    /\ fired.any
    /\ fired.files = {}

\* C30: the directory walk ends by itself on every finite tree, also when a
\* symbolic link points to an ancestor directory, and it visits each file and
\* lists each directory at most once: no file occurs twice in the file list
\* of a run, under one path or under two, and the walk is not ended by the
\* system's limit on the links of a path.
C30_WalkVisitsOnce ==
    (run.kind # "none" /\ run.stage # "workspace") =>
        /\ \A i, j \in 1..Len(run.walked) :
               RealPath(Resolve(run.walked[i].path)) = RealPath(Resolve(run.walked[j].path))
                   => i = j
        /\ \A d, e \in run.listed : RealPath(Resolve(d)) = RealPath(Resolve(e)) => d = e
        /\ ~StartsWith(run.error, "ELOOP")

====
